---- MODULE Spec2Model ----
(***************************************************************************)
(* A model of the r2c2 statement crates: the IRI and language-tag          *)
(* validators (regular expressions interpreted over code points), the      *)
(* Iri / LangTag / Literal value types, the role proxies, Triple / Quad    *)
(* groundness, and the oxrdf / rdf_types adapters.                         *)
(*                                                                         *)
(* Text is a sequence of characters, matched by code point.  A regular     *)
(* expression is a tree (class / sequence / alternation / repetition) and  *)
(* is_match is the language-membership test that Regex::is_match computes. *)
(***************************************************************************)
EXTENDS Integers, Sequences, FiniteSets, TLC

VARIABLES
    txt,      \* the text handed to a constructor (sequence of code points)
    ntok,     \* how many pieces the text was assembled from
    iri,      \* Option<Iri>: None, or Some(Iri) produced by a constructor
    tagA,     \* Option<LangTag>: first language tag register
    tagB,     \* Option<LangTag>: second language tag register
    lit,      \* a Literal value
    triple,   \* a Triple value (subject, predicate, object; object may nest)
    quad,     \* a Quad value
    ext,      \* a value of an adapted representation (oxrdf / rdf_types)
    op,       \* name of the last operation applied
    ret       \* what the last operation returned

vars == <<txt, ntok, iri, tagA, tagB, lit, triple, quad, ext, op, ret>>

-----------------------------------------------------------------------------
(* Text: code points                                                       *)

\* The printable ASCII characters, in code-point order from U+0020.
Ascii ==
    << " ", "!", "\"", "#", "$", "%", "&", "'", "(", ")", "*", "+", ",", "-", ".", "/",
       "0", "1", "2", "3", "4", "5", "6", "7", "8", "9", ":", ";", "<", "=", ">", "?",
       "@", "A", "B", "C", "D", "E", "F", "G", "H", "I", "J", "K", "L", "M", "N", "O",
       "P", "Q", "R", "S", "T", "U", "V", "W", "X", "Y", "Z", "[", "\\", "]", "^", "_",
       "U+0060", "a", "b", "c", "d", "e", "f", "g", "h", "i", "j", "k", "l", "m", "n", "o",
       "p", "q", "r", "s", "t", "u", "v", "w", "x", "y", "z", "{", "|", "}", "~" >>

\* Named non-ASCII (and control) characters used in inputs.
Named ==
    [ c \in {"U+000A", "U+00E9", "U+E000", "U+212A", "U+26C4"} |->
        CASE c = "U+000A" -> 10       \* line feed
          [] c = "U+00E9" -> 233      \* e acute: RFC 3987 ucschar
          [] c = "U+E000" -> 57344    \* RFC 3987 iprivate
          [] c = "U+212A" -> 8490     \* KELVIN SIGN: Unicode case fold of k
          [] c = "U+26C4" -> 9924 ]   \* snowman

CodePoint ==
    [ c \in {Ascii[i] : i \in DOMAIN Ascii} \cup DOMAIN Named |->
        IF c \in DOMAIN Named THEN Named[c]
        ELSE 31 + (CHOOSE i \in DOMAIN Ascii : Ascii[i] = c) ]

Ch(c) == CodePoint[c]

\* The code points of a text.
CodePoints(s) == [ i \in 1..Len(s) |-> CodePoint[s[i]] ]

\* The character of an ASCII code point.
AsciiChar(n) == Ascii[n - 31]

\* u8::to_ascii_lowercase, on a code point
code_to_ascii_lowercase(n) == IF n >= 65 /\ n <= 90 THEN n + 32 ELSE n

\* u8::to_ascii_uppercase, on a code point
code_to_ascii_uppercase(n) == IF n >= 97 /\ n <= 122 THEN n - 32 ELSE n

char_to_ascii_lowercase(c) ==
    IF Ch(c) >= 65 /\ Ch(c) <= 90 THEN AsciiChar(Ch(c) + 32) ELSE c

\* str::to_ascii_lowercase
to_ascii_lowercase(s) == [ i \in 1..Len(s) |-> char_to_ascii_lowercase(s[i]) ]

\* str::eq_ignore_ascii_case: same length and bytewise equal after folding
eq_ignore_ascii_case(a, b) ==
    /\ Len(a) = Len(b)
    /\ \A i \in 1..Len(a) : char_to_ascii_lowercase(a[i]) = char_to_ascii_lowercase(b[i])

\* Ord for str: lexicographic comparison of the bytes (code-point order)
RECURSIVE str_cmp_from(_, _, _)
str_cmp_from(a, b, i) ==
    IF i > Len(a) /\ i > Len(b) THEN "Equal"
    ELSE IF i > Len(a) THEN "Less"
    ELSE IF i > Len(b) THEN "Greater"
    ELSE IF Ch(a[i]) < Ch(b[i]) THEN "Less"
    ELSE IF Ch(a[i]) > Ch(b[i]) THEN "Greater"
    ELSE str_cmp_from(a, b, i + 1)

str_cmp(a, b) == str_cmp_from(a, b, 1)

None == [some |-> FALSE]

Some(v) == [some |-> TRUE, val |-> v]

-----------------------------------------------------------------------------
(* Regular expressions                                                     *)

Inf == -1

Cls(ranges) == [k |-> "cls", r |-> ranges]

Lit(c) == Cls({<<Ch(c), Ch(c)>>})

Cat(items) == [k |-> "cat", items |-> items]

Alt(items) == [k |-> "alt", items |-> items]

Rep(r, lo, hi) == [k |-> "rep", r |-> r, lo |-> lo, hi |-> hi]

Opt(r) == Rep(r, 0, 1)

Star(r) == Rep(r, 0, Inf)

Plus(r) == Rep(r, 1, Inf)

\* A literal string of the pattern: each character in turn.
Str(chars) == Cat([ i \in 1..Len(chars) |-> Lit(chars[i]) ])

\* The characters a pattern character stands for under the flags: with i, both
\* ASCII cases; with i and u also the Unicode simple case folds (k, K, KELVIN
\* SIGN and s, S, LONG S).
CaseVariants(c, flags) ==
    IF ~flags.i THEN {c}
    ELSE {c, code_to_ascii_lowercase(c), code_to_ascii_uppercase(c)}
         \cup (IF flags.u /\ c \in {75, 107, 8490} THEN {75, 107, 8490} ELSE {})
         \cup (IF flags.u /\ c \in {83, 115, 383} THEN {83, 115, 383} ELSE {})

InClass(c, ranges, flags) ==
    \E v \in CaseVariants(c, flags) : \E r \in ranges : r[1] <= v /\ v <= r[2]

\* Ends(re, flags, s, from): the positions (0..Len(s)) at which a match of re
\* that starts at a position of `from` can end.
RECURSIVE Ends(_, _, _, _), CatEnds(_, _, _, _, _), RepEnds(_, _, _, _, _, _), Closure(_, _, _, _, _, _)
Ends(re, flags, s, from) ==
    IF from = {} THEN {}
    ELSE CASE re.k = "cls" ->
                { i + 1 : i \in { j \in from : j < Len(s) /\ InClass(s[j + 1], re.r, flags) } }
           [] re.k = "cat" -> CatEnds(re.items, 1, flags, s, from)
           [] re.k = "alt" -> UNION { Ends(re.items[n], flags, s, from) : n \in DOMAIN re.items }
           [] re.k = "rep" -> RepEnds(re.r, re.lo, re.hi, flags, s, from)

CatEnds(items, n, flags, s, from) ==
    IF n > Len(items) THEN from
    ELSE CatEnds(items, n + 1, flags, s, Ends(items[n], flags, s, from))

RepEnds(r, lo, hi, flags, s, from) ==
    IF lo > 0
    THEN RepEnds(r, lo - 1, IF hi = Inf THEN Inf ELSE hi - 1, flags, s, Ends(r, flags, s, from))
    ELSE Closure(r, hi, flags, s, from, from)

Closure(r, hi, flags, s, acc, frontier) ==
    IF hi = 0 \/ frontier = {} THEN acc
    ELSE LET next == Ends(r, flags, s, frontier) \ acc
         IN  Closure(r, IF hi = Inf THEN Inf ELSE hi - 1, flags, s, acc \cup next, next)

\* Regex::is_match: an unanchored search, pinned by ^ and $ when the pattern has them.
is_match(regex, s) ==
    LET starts == IF regex.anchor_start THEN {0} ELSE 0..Len(s)
        ends   == Ends(regex.re, regex.flags, CodePoints(s), starts)
    IN  IF regex.anchor_end THEN Len(s) \in ends ELSE ends # {}

-----------------------------------------------------------------------------
(* statement/src/_iri.rs: IRI_REGEX_SRC                                    *)

R(a, b) == <<Ch(a), Ch(b)>>

One(a) == <<Ch(a), Ch(a)>>

\* [-A-Za-z0-9._~ ...: the unreserved ASCII characters
iunreserved_ascii ==
    {One("-"), R("A", "Z"), R("a", "z"), R("0", "9"), One("."), One("_"), One("~")}

\* \u{A0}-\u{D7FF}\u{F900}-\u{FDCF}\u{FDF0}-\u{FFEF}\u{10000}-\u{1FFFD} ... \u{D0000}-\u{DFFFD}\u{E1000}-\u{EFFFD}
ucschar ==
    {<<160, 55295>>, <<63744, 64975>>, <<65008, 65519>>, <<921600, 983037>>}
    \cup { <<n * 65536, n * 65536 + 65533>> : n \in 1..13 }

\* !$&'()*+,;=
sub_delims ==
    {One("!"), One("$"), One("&"), One("'"), One("("), One(")"), One("*"), One("+"),
     One(","), One(";"), One("=")}

\* \u{E000}-\u{F8FF}\u{F0000}-\u{FFFFD}\u{100000}-\u{10FFFD}
iprivate == {<<57344, 63743>>, <<983040, 1048573>>, <<1048576, 1114109>>}

HEXDIG == Cls({R("0", "9"), R("a", "f"), R("A", "F")})

DIGIT == Cls({R("0", "9")})

\* %[0-9a-fA-F]{2}
pct_encoded == Cat(<<Lit("%"), Rep(HEXDIG, 2, 2)>>)

\* the class of iuserinfo: iunreserved, sub-delims and ':'
iuserinfo_class == Cls(iunreserved_ascii \cup ucschar \cup sub_delims \cup {One(":")})

\* the class of ireg_name: iunreserved and sub-delims
ireg_name_class == Cls(iunreserved_ascii \cup ucschar \cup sub_delims)

\* the class of the path segments: iunreserved, sub-delims, ':' and '@'
ipchar_class == Cls(iunreserved_ascii \cup ucschar \cup sub_delims \cup {One(":"), One("@")})

\* the class of iquery: the path class, iprivate, '/' and '?'
iquery_class ==
    Cls(iunreserved_ascii \cup ucschar \cup sub_delims
        \cup {One(":"), One("@"), One("'")} \cup iprivate \cup {One("/"), One("?")})

\* the class of ifragment: the path class, '/' and '?'
ifragment_class ==
    Cls(iunreserved_ascii \cup ucschar \cup sub_delims \cup {One(":"), One("@"), One("/"), One("?")})

\* (?: [class] | %[0-9a-fA-F]{2} )
ipchar == Alt(<<ipchar_class, pct_encoded>>)

\* [0-9a-fA-F]{1,4}
h16 == Rep(HEXDIG, 1, 4)

\* (?:[0-9a-fA-F]{1,4}:)
h16_colon == Cat(<<h16, Lit(":")>>)

\* (?:[0-9]|(?:[1-9][0-9])|(?:1[0-9]{2})|(?:2[0-4][0-9])|(?:25[0-5]))
dec_octet ==
    Alt(<< DIGIT,
           Cat(<<Cls({R("1", "9")}), DIGIT>>),
           Cat(<<Lit("1"), Rep(DIGIT, 2, 2)>>),
           Cat(<<Lit("2"), Cls({R("0", "4")}), DIGIT>>),
           Cat(<<Lit("2"), Lit("5"), Cls({R("0", "5")})>>) >>)

\* dec_octet (?:\. dec_octet){3}
ipv4address == Cat(<<dec_octet, Rep(Cat(<<Lit("."), dec_octet>>), 3, 3)>>)

\* (?:[0-9a-fA-F]{1,4}:[0-9a-fA-F]{1,4}|ipv4address)
ls32 == Alt(<<Cat(<<h16, Lit(":"), h16>>), ipv4address>>)

\* (?:(?:[0-9a-fA-F]{1,4}:){0,n}:[0-9a-fA-F]{1,4})?
h16_prefix(n) == Opt(Cat(<<Rep(h16_colon, 0, n), Lit(":"), h16>>))

double_colon == Cat(<<Lit(":"), Lit(":")>>)

ipv6address ==
    Alt(<< Cat(<<Rep(h16_colon, 6, 6), ls32>>),
           Cat(<<double_colon, Rep(h16_colon, 5, 5), ls32>>),
           Cat(<<Opt(h16), double_colon, Rep(h16_colon, 4, 4), ls32>>),
           Cat(<<h16_prefix(1), double_colon, Rep(h16_colon, 3, 3), ls32>>),
           Cat(<<h16_prefix(2), double_colon, Rep(h16_colon, 2, 2), ls32>>),
           Cat(<<h16_prefix(3), double_colon, h16_colon, ls32>>),
           Cat(<<h16_prefix(4), double_colon, ls32>>),
           Cat(<<h16_prefix(5), double_colon, h16>>),
           Cat(<<h16_prefix(6), double_colon>>) >>)

\* v[0-9a-fA-F]+ \. [-A-Za-z0-9._~!$&'()*+,;=:]+
ipvfuture ==
    Cat(<<Lit("v"), Plus(HEXDIG), Lit("."),
          Plus(Cls(iunreserved_ascii \cup sub_delims \cup {One(":")}))>>)

\* \[ (?: ipv6address | ipvfuture ) \]
ip_literal == Cat(<<Lit("["), Alt(<<ipv6address, ipvfuture>>), Lit("]")>>)

\* (?: (?: [class] | pct )* @ )?
iuserinfo == Opt(Cat(<<Star(Alt(<<iuserinfo_class, pct_encoded>>)), Lit("@")>>))

\* (?: [class] | pct )*
ireg_name == Star(Alt(<<ireg_name_class, pct_encoded>>))

ihost == Alt(<<ip_literal, ipv4address, ireg_name>>)

\* (?: : [0-9]* )?
port == Opt(Cat(<<Lit(":"), Star(DIGIT)>>))

iauthority == Cat(<<iuserinfo, ihost, port>>)

\* (?: / (?: ipchar )* )*
ipath_abempty == Star(Cat(<<Lit("/"), Star(ipchar)>>))

\* / (?: (?: ipchar )* (?: / (?: ipchar )* )* )?
ipath_absolute ==
    Cat(<<Lit("/"), Opt(Cat(<<Star(ipchar), Star(Cat(<<Lit("/"), Star(ipchar)>>))>>))>>)

\* (?: ipchar )+ (?: / (?: ipchar )* )*
ipath_rootless == Cat(<<Plus(ipchar), Star(Cat(<<Lit("/"), Star(ipchar)>>))>>)

\* [A-Za-z] [-A-Za-z0-9+.]*
scheme ==
    Cat(<<Cls({R("A", "Z"), R("a", "z")}),
          Star(Cls({One("-"), R("A", "Z"), R("a", "z"), R("0", "9"), One("+"), One(".")}))>>)

\* (?: // iauthority ipath_abempty | ipath_absolute | ipath_rootless )?
ihier_part ==
    Opt(Alt(<< Cat(<<Lit("/"), Lit("/"), iauthority, ipath_abempty>>),
               ipath_absolute,
               ipath_rootless >>))

\* (?: \? (?: [class] | pct )* )?
iquery == Opt(Cat(<<Lit("?"), Star(Alt(<<iquery_class, pct_encoded>>))>>))

\* the fragment with the character class of the query, which has the iprivate ranges
ifragment_with_iprivate == Opt(Cat(<<Lit("#"), Star(Alt(<<iquery_class, pct_encoded>>))>>))

\* (?: \# (?: [class] | pct )* )?
ifragment == Opt(Cat(<<Lit("#"), Star(Alt(<<ifragment_class, pct_encoded>>))>>))

\* (?x)^ scheme : ihier_part iquery ifragment $
IRI_REGEX_SRC ==
    [ flags        |-> [i |-> FALSE, u |-> TRUE],
      anchor_start |-> TRUE,
      anchor_end   |-> TRUE,
      re           |-> Cat(<<scheme, Lit(":"), ihier_part, iquery, ifragment>>) ]

\* LazyLock::new(|| Regex::new(IRI_REGEX_SRC).unwrap())
IRI_REGEX == IRI_REGEX_SRC

-----------------------------------------------------------------------------
(* statement/src/_literal/_language_tag.rs: TAG_REGEX_SRC                  *)

ALPHA_UPPER == Cls({R("A", "Z")})

ALNUM_UPPER == Cls({R("A", "Z"), R("0", "9")})

\* (?: [A-Z]{2,3} (?: (?: -[A-Z]{3} ){0,3} ) | [A-Z]{4,8} )
language ==
    Alt(<< Cat(<<Rep(ALPHA_UPPER, 2, 3), Rep(Cat(<<Lit("-"), Rep(ALPHA_UPPER, 3, 3)>>), 0, 3)>>),
           Rep(ALPHA_UPPER, 4, 8) >>)

\* (?: -[A-Z]{4} )?
script == Opt(Cat(<<Lit("-"), Rep(ALPHA_UPPER, 4, 4)>>))

\* (?: - (?: [A-Z]{2} | [0-9]{3} ) )?
region == Opt(Cat(<<Lit("-"), Alt(<<Rep(ALPHA_UPPER, 2, 2), Rep(DIGIT, 3, 3)>>)>>))

\* the variant with no upper limit on its length: (?: - (?: [A-Z0-9]{5,} | [0-9][A-Z0-9]{3} ) )*
variant_unbounded ==
    Star(Cat(<<Lit("-"), Alt(<<Rep(ALNUM_UPPER, 5, Inf), Cat(<<DIGIT, Rep(ALNUM_UPPER, 3, 3)>>)>>)>>))

\* (?: - (?: [A-Z0-9]{5,8} | [0-9][A-Z0-9]{3} ) )*
variant ==
    Star(Cat(<<Lit("-"), Alt(<<Rep(ALNUM_UPPER, 5, 8), Cat(<<DIGIT, Rep(ALNUM_UPPER, 3, 3)>>)>>)>>))

\* (?: -[0-9A-WY-Z] (?: -[A-Z0-9]{2,8} )+ )*
extension ==
    Star(Cat(<<Lit("-"), Cls({R("0", "9"), R("A", "W"), R("Y", "Z")}),
               Plus(Cat(<<Lit("-"), Rep(ALNUM_UPPER, 2, 8)>>))>>))

\* privateUse with the repetition written * where the pattern has +
privateUse_star == Cat(<<Lit("X"), Star(Cat(<<Lit("-"), Rep(ALNUM_UPPER, 1, 8)>>))>>)

\* X (?: -[A-Z0-9]{1,8} )+
privateUse == Cat(<<Lit("X"), Plus(Cat(<<Lit("-"), Rep(ALNUM_UPPER, 1, 8)>>))>>)

\* language script? region? variant* extension* (?: - privateUse )?
langtag ==
    Cat(<<language, script, region, variant, extension, Opt(Cat(<<Lit("-"), privateUse>>))>>)

\* the enumeration with the regular grandfathered tags listed as well
grandfathered_with_regular ==
    Alt(<< Str(<<"e", "n", "-", "G", "B", "-", "o", "e", "d">>),
           Str(<<"i", "-", "a", "m", "i">>),
           Str(<<"i", "-", "b", "n", "n">>),
           Str(<<"i", "-", "d", "e", "f", "a", "u", "l", "t">>),
           Str(<<"i", "-", "e", "n", "o", "c", "h", "i", "a", "n">>),
           Str(<<"i", "-", "h", "a", "k">>),
           Str(<<"i", "-", "k", "l", "i", "n", "g", "o", "n">>),
           Str(<<"i", "-", "l", "u", "x">>),
           Str(<<"i", "-", "m", "i", "n", "g", "o">>),
           Str(<<"i", "-", "n", "a", "v", "a", "j", "o">>),
           Str(<<"i", "-", "p", "w", "n">>),
           Str(<<"i", "-", "t", "a", "o">>),
           Str(<<"i", "-", "t", "a", "y">>),
           Str(<<"i", "-", "t", "s", "u">>),
           Str(<<"s", "g", "n", "-", "B", "E", "-", "F", "R">>),
           Str(<<"s", "g", "n", "-", "B", "E", "-", "N", "L">>),
           Str(<<"s", "g", "n", "-", "C", "H", "-", "D", "E">>),
           Str(<<"a", "r", "t", "-", "l", "o", "j", "b", "a", "n">>),
           Str(<<"c", "e", "l", "-", "g", "a", "u", "l", "i", "s", "h">>),
           Str(<<"n", "o", "-", "b", "o", "k">>),
           Str(<<"n", "o", "-", "n", "y", "n">>),
           Str(<<"z", "h", "-", "g", "u", "o", "y", "u">>),
           Str(<<"z", "h", "-", "h", "a", "k", "k", "a">>),
           Str(<<"z", "h", "-", "m", "i", "n">>),
           Str(<<"z", "h", "-", "m", "i", "n", "-", "n", "a", "n">>),
           Str(<<"z", "h", "-", "x", "i", "a", "n", "g">>) >>)

\* en-GB-oed|i-ami|...|sgn-CH-DE
grandfathered ==
    Alt(<< Str(<<"e", "n", "-", "G", "B", "-", "o", "e", "d">>),
           Str(<<"i", "-", "a", "m", "i">>),
           Str(<<"i", "-", "b", "n", "n">>),
           Str(<<"i", "-", "d", "e", "f", "a", "u", "l", "t">>),
           Str(<<"i", "-", "e", "n", "o", "c", "h", "i", "a", "n">>),
           Str(<<"i", "-", "h", "a", "k">>),
           Str(<<"i", "-", "k", "l", "i", "n", "g", "o", "n">>),
           Str(<<"i", "-", "l", "u", "x">>),
           Str(<<"i", "-", "m", "i", "n", "g", "o">>),
           Str(<<"i", "-", "n", "a", "v", "a", "j", "o">>),
           Str(<<"i", "-", "p", "w", "n">>),
           Str(<<"i", "-", "t", "a", "o">>),
           Str(<<"i", "-", "t", "a", "y">>),
           Str(<<"i", "-", "t", "s", "u">>),
           Str(<<"s", "g", "n", "-", "B", "E", "-", "F", "R">>),
           Str(<<"s", "g", "n", "-", "B", "E", "-", "N", "L">>),
           Str(<<"s", "g", "n", "-", "C", "H", "-", "D", "E">>) >>)

\* the pattern without the flag i: (?x-u)^( langtag | privateUse | grandfathered )$
TAG_REGEX_SRC_case_sensitive ==
    [ flags        |-> [i |-> FALSE, u |-> FALSE],
      anchor_start |-> TRUE,
      anchor_end   |-> TRUE,
      re           |-> Alt(<<langtag, privateUse, grandfathered>>) ]

\* (?xi-u)^( langtag | privateUse | grandfathered )$
TAG_REGEX_SRC ==
    [ flags        |-> [i |-> TRUE, u |-> FALSE],
      anchor_start |-> TRUE,
      anchor_end   |-> TRUE,
      re           |-> Alt(<<langtag, privateUse, grandfathered>>) ]

\* LazyLock::new(|| Regex::new(TAG_REGEX_SRC).unwrap())
TAG_REGEX == TAG_REGEX_SRC

-----------------------------------------------------------------------------
(* statement/src/_iri.rs: the Iri value type                               *)

\* Iri(inner): the tuple struct around the text
Iri(inner) == [text |-> inner]

\* Iri::new keeping the text in lower case
Iri_new_lowercased(t) ==
    LET inner == to_ascii_lowercase(t)
    IN  IF is_match(IRI_REGEX, inner) THEN Some(Iri(inner)) ELSE None

\* Iri::new
Iri_new(t) ==
    LET inner == t
    IN  IF is_match(IRI_REGEX, inner) THEN Some(Iri(inner)) ELSE None

\* Iri::new_unchecked
Iri_new_unchecked(t) == Iri(t)

\* Iri::unwrap
Iri_unwrap(self) == self.text

\* AsRef<str> / Borrow<str> / Deref for Iri
Iri_as_ref(self) == self.text

\* Iri::borrowed
Iri_borrowed(self) == Iri_new_unchecked(Iri_as_ref(self))

\* Iri::unchecked_map
Iri_unchecked_map(self, f) == Iri(f[self.text])

\* Clone for Iri (derived)
Iri_clone(self) == Iri(self.text)

\* PartialEq for Iri (derived): the texts are equal
Iri_eq(self, other) == self.text = other.text

\* PartialEq<&str> for Iri that ignores ASCII case
Iri_eq_str_ignore_case(self, other) == eq_ignore_ascii_case(Iri_as_ref(self), other)

\* PartialEq<&str> for Iri
Iri_eq_str(self, other) == Iri_as_ref(self) = other

\* PartialEq<Iri> for &str
str_eq_Iri(self, other) == self = Iri_as_ref(other)

\* Ord for Iri (derived): the order of the texts
Iri_cmp(self, other) == str_cmp(self.text, other.text)

\* PartialOrd for Iri (derived)
Iri_partial_cmp(self, other) == Some(str_cmp(self.text, other.text))

\* PartialOrd<&str> for Iri
Iri_partial_cmp_str(self, other) == Some(str_cmp(Iri_as_ref(self), other))

\* PartialOrd<Iri> for &str
str_partial_cmp_Iri(self, other) == Some(str_cmp(self, Iri_as_ref(other)))

\* PartialOrd::lt, of a partial_cmp
lt(ordering) == ordering = Some("Less")

\* impl Display for Iri: write!(f, "<{}>", ..)
Iri_fmt(self) == <<"<">> \o Iri_as_ref(self) \o <<">">>

-----------------------------------------------------------------------------
(* RFC 3987 (with RFC 3986 for IP-literal): the grammar of an absolute IRI, *)
(* production by production.                                               *)

rfc_iunreserved == iunreserved_ascii \cup ucschar

rfc_pct_encoded == Cat(<<Lit("%"), HEXDIG, HEXDIG>>)

rfc_ipchar == Alt(<<Cls(rfc_iunreserved \cup sub_delims \cup {One(":"), One("@")}), rfc_pct_encoded>>)

rfc_isegment == Star(rfc_ipchar)

rfc_isegment_nz == Plus(rfc_ipchar)

\* [ *n( h16 ":" ) h16 ]
rfc_h16_prefix(n) == Opt(Cat(<<Rep(h16_colon, 0, n), h16>>))

rfc_IPv6address ==
    Alt(<< Cat(<<Rep(h16_colon, 6, 6), ls32>>),
           Cat(<<double_colon, Rep(h16_colon, 5, 5), ls32>>),
           Cat(<<Opt(h16), double_colon, Rep(h16_colon, 4, 4), ls32>>),
           Cat(<<rfc_h16_prefix(1), double_colon, Rep(h16_colon, 3, 3), ls32>>),
           Cat(<<rfc_h16_prefix(2), double_colon, Rep(h16_colon, 2, 2), ls32>>),
           Cat(<<rfc_h16_prefix(3), double_colon, h16_colon, ls32>>),
           Cat(<<rfc_h16_prefix(4), double_colon, ls32>>),
           Cat(<<rfc_h16_prefix(5), double_colon, h16>>),
           Cat(<<rfc_h16_prefix(6), double_colon>>) >>)

\* "v" 1*HEXDIG "." 1*( unreserved / sub-delims / ":" ); an ABNF literal matches both cases
rfc_IPvFuture ==
    Cat(<<Cls({One("v"), One("V")}), Plus(HEXDIG), Lit("."),
          Plus(Cls(iunreserved_ascii \cup sub_delims \cup {One(":")}))>>)

rfc_IP_literal == Cat(<<Lit("["), Alt(<<rfc_IPv6address, rfc_IPvFuture>>), Lit("]")>>)

rfc_iuserinfo == Star(Alt(<<Cls(rfc_iunreserved \cup sub_delims \cup {One(":")}), rfc_pct_encoded>>))

rfc_ireg_name == Star(Alt(<<Cls(rfc_iunreserved \cup sub_delims), rfc_pct_encoded>>))

rfc_iauthority ==
    Cat(<< Opt(Cat(<<rfc_iuserinfo, Lit("@")>>)),
           Alt(<<rfc_IP_literal, ipv4address, rfc_ireg_name>>),
           Opt(Cat(<<Lit(":"), Star(DIGIT)>>)) >>)

rfc_ipath_abempty == Star(Cat(<<Lit("/"), rfc_isegment>>))

rfc_ipath_absolute ==
    Cat(<<Lit("/"), Opt(Cat(<<rfc_isegment_nz, Star(Cat(<<Lit("/"), rfc_isegment>>))>>))>>)

rfc_ipath_rootless == Cat(<<rfc_isegment_nz, Star(Cat(<<Lit("/"), rfc_isegment>>))>>)

rfc_ipath_empty == Cat(<< >>)

rfc_ihier_part ==
    Alt(<< Cat(<<Lit("/"), Lit("/"), rfc_iauthority, rfc_ipath_abempty>>),
           rfc_ipath_absolute, rfc_ipath_rootless, rfc_ipath_empty >>)

rfc_iquery == Star(Alt(<<rfc_ipchar, Cls(iprivate \cup {One("/"), One("?")})>>))

rfc_ifragment == Star(Alt(<<rfc_ipchar, Cls({One("/"), One("?")})>>))

rfc_scheme ==
    Cat(<<Cls({R("A", "Z"), R("a", "z")}),
          Star(Cls({R("A", "Z"), R("a", "z"), R("0", "9"), One("+"), One("-"), One(".")}))>>)

\* IRI = scheme ":" ihier-part [ "?" iquery ] [ "#" ifragment ]
rfc_IRI ==
    [ flags        |-> [i |-> FALSE, u |-> TRUE],
      anchor_start |-> TRUE,
      anchor_end   |-> TRUE,
      re           |-> Cat(<< rfc_scheme, Lit(":"), rfc_ihier_part,
                              Opt(Cat(<<Lit("?"), rfc_iquery>>)),
                              Opt(Cat(<<Lit("#"), rfc_ifragment>>)) >>) ]

IsRfc3987Iri(s) == is_match(rfc_IRI, s)

-----------------------------------------------------------------------------
(* SpecIri: texts handed to the validating IRI constructor                 *)

MaxIriTokens == 2

\* texts of the crate's tests (POSITIVE_IRIS, NEGATIVE_IRIS) and the empty text
IriSeeds ==
    { << >>,
      <<"h", "t", "t", "p", ":">>,
      <<"h", "t", "t", "p", ":", "/", "/", "e", "x", "a", "m", "p", "l", "e", ".", "o", "r", "g">>,
      <<"h", "t", "t", "p", ":", "/", "/", "e", "x", "a", "m", "p", "l", "e", ".", "o", "r", "g", "/">>,
      <<"t", "a", "g", ":", "a", "b", "c", "/", "d", "e", "f">>,
      <<"h", "t", "t", "p", ":", "/", "/", "[", ":", ":", "]">>,
      <<"f", "o", "o">>,
      <<"/", "/", "e", "x", "a", "m", "p", "l", "e", ".", "o", "r", "g">>,
      <<"h", "t", "t", "p", ":", "/", "/", "a", "/", "[">>,
      <<"h", "t", "t", "p", ":", "/", "/", "a", "/", " ">>,
      <<"h", "t", "t", "p", ":", "/", "/", "a", "/">> }

\* pieces appended to a text
IriTokens ==
    { <<":">>,
      <<"/">>,
      <<"a">>,
      <<"8">>,
      <<"@">>,
      <<"?">>,
      <<"#">>,
      <<"[", "1", ":", ":", "]">>,
      <<"%", "0", "D">>,
      <<"U+E000">> }

Idle ==
    /\ iri = None /\ tagA = None /\ tagB = None /\ lit = None /\ triple = None
    /\ quad = None /\ ext = None /\ op = "init" /\ ret = None

InitIri ==
    /\ txt \in IriSeeds
    /\ ntok = 0
    /\ Idle

IriPush(tok) ==
    /\ op = "init"
    /\ ntok < MaxIriTokens
    /\ txt' = txt \o tok
    /\ ntok' = ntok + 1
    /\ UNCHANGED <<iri, tagA, tagB, lit, triple, quad, ext, op, ret>>

IriNew ==
    /\ op = "init"
    /\ iri' = Iri_new(txt)
    /\ op' = "Iri::new"
    /\ ret' = iri'
    /\ UNCHANGED <<txt, ntok, tagA, tagB, lit, triple, quad, ext>>

NextIri ==
    \/ \E tok \in IriTokens : IriPush(tok)
    \/ IriNew

SpecIri == InitIri /\ [][NextIri]_vars

\* C1: Iri::new returns Some exactly for the texts that match the RFC 3987
\* absolute-IRI grammar from start to end.
C1_IriNewIffRfc3987 ==
    op = "Iri::new" => (ret.some <=> IsRfc3987Iri(txt))

\* the text holds the character c
HasChar(t, c) == \E i \in 1..Len(t) : t[i] = c

\* the text without its last character
ButLast(t) == SubSeq(t, 1, Len(t) - 1)

\* the text is a valid IRI followed by one iprivate character
EndsInIprivate(t) ==
    /\ Len(t) >= 1
    /\ t[Len(t)] = "U+E000"
    /\ Iri_new(ButLast(t)).some

\* C23 as stated: query and fragment both accept iprivate characters (e.g.
\* U+E000), while the path rejects them; appended to a valid IRI, U+E000 is
\* accepted iff it lands in the query or in the fragment.
C23_QueryAndFragmentAcceptIprivate ==
    op = "Iri::new" /\ EndsInIprivate(txt) =>
        (ret.some <=> (HasChar(ButLast(txt), "?") \/ HasChar(ButLast(txt), "#")))

\* C23, amended: the query accepts iprivate characters (e.g. U+E000), while
\* the fragment and the path reject them; appended to a valid IRI, U+E000 is
\* accepted iff it lands in the query.
C23_OnlyQueryAcceptsIprivate ==
    op = "Iri::new" /\ EndsInIprivate(txt) =>
        (ret.some <=> (HasChar(ButLast(txt), "?") /\ ~HasChar(ButLast(txt), "#")))

\* U+E000 in the fragment of http://a/ was refused
C23_IprivateInFragmentRefused ==
    /\ op = "Iri::new" /\ ret = None
    /\ txt = <<"h", "t", "t", "p", ":", "/", "/", "a", "/", "#", "U+E000">>

-----------------------------------------------------------------------------
(* SpecIp: IRIs whose host is a bracketed IP-literal                       *)

MaxIpTokens == 2

\* texts put between the brackets: addresses with the elision at every place,
\* with none, with two, with a single ':' in front, and an IPvFuture
IpSeeds ==
    { <<>>,
      <<"1", ":", "2", ":", ":", "3", ":", "4", ":", "5", ":", "6", ":", "7">>,
      <<":", "1", ":", ":">>,
      <<"1", ":", ":", "2", ":", ":">>,
      <<"1", ":", ":">>,
      <<"1", ":", ":", "2">>,
      <<":", ":">>,
      <<":", ":", "1">>,
      <<"1", ":", "2", ":", "3", ":", "4", ":", "5", ":", "6", ":", "7", ":", "8">>,
      <<"1", ":", "2", ":", "3", ":", "4", ":", "5", ":", "6", ":", "7", ":", ":">>,
      <<"v", "1", ".", "a">>,
      <<"1", ":", "2", ":", "3", ":", "4", ":", "5", ":", "6", ":", ":", "7">>,
      <<":", ":", "1", ":", "2", ":", "3", ":", "4", ":", "5", ":", "6", ":", "7">>,
      <<"1", ":", ":", "2", ":", "3", ":", "4", ":", "5", ":", "6", ":", "7">>,
      <<"1", ":", "2", ":", "3", ":", ":", "4", ":", "5", ":", "6", ":", "7">>,
      <<":", ":", "1", ".", "2", ".", "3", ".", "4">>,
      <<"1", ":", "2", ":", "3", ":", "4", ":", "5", ":", "6", ":", "1", ".", "2", ".", "3", ".", "4">>,
      <<"1", ":", ":", "1", ".", "2", ".", "3", ".", "4">> }

\* pieces appended to the bracketed text
IpTokens == { <<"1">>, <<":">>, <<":", ":">>, <<":", "a", "F">> }

\* the IRI whose host is the bracketed text
IpIri(t) == <<"h", "t", "t", "p", ":", "/", "/", "[">> \o t \o <<"]">>

InitIp ==
    /\ txt \in IpSeeds
    /\ ntok = 0
    /\ Idle

IpPush(tok) ==
    /\ op = "init"
    /\ ntok < MaxIpTokens
    /\ txt' = txt \o tok
    /\ ntok' = ntok + 1
    /\ UNCHANGED <<iri, tagA, tagB, lit, triple, quad, ext, op, ret>>

IpNew ==
    /\ op = "init"
    /\ iri' = Iri_new(IpIri(txt))
    /\ op' = "Iri::new"
    /\ ret' = iri'
    /\ UNCHANGED <<txt, ntok, tagA, tagB, lit, triple, quad, ext>>

NextIp ==
    \/ \E tok \in IpTokens : IpPush(tok)
    \/ IpNew

SpecIp == InitIp /\ [][NextIp]_vars

\* RFC 3986: IP-literal = "[" ( IPv6address / IPvFuture ) "]", the text between the brackets
IsRfc3986IpLiteral(t) ==
    is_match([ flags        |-> [i |-> FALSE, u |-> TRUE],
               anchor_start |-> TRUE,
               anchor_end   |-> TRUE,
               re           |-> Alt(<<rfc_IPv6address, rfc_IPvFuture>>) ], t)

\* C24: an IRI whose authority host is a bracketed IP-literal is accepted iff
\* the bracketed text is an RFC 3986 IPv6address or IPvFuture: an address with
\* several groups before the '::' is accepted, a text with a single ':' in
\* front of a group or with more than one '::' is rejected.
C24_IpLiteralIffRfc3986 ==
    op = "Iri::new" => (ret.some <=> IsRfc3986IpLiteral(txt))

-----------------------------------------------------------------------------
(* statement/src/_literal/_language_tag.rs: the LangTag value type         *)

\* LangTag(inner): the tuple struct around the text
LangTag(inner) == [text |-> inner]

\* LangTag::new without the match against TAG_REGEX
LangTag_new_unvalidated(t) ==
    LET inner == t
    IN  Some(LangTag(inner))

\* LangTag::new
LangTag_new(t) ==
    LET inner == t
    IN  IF is_match(TAG_REGEX, inner) THEN Some(LangTag(inner)) ELSE None

\* LangTag::new_unchecked
LangTag_new_unchecked(t) == LangTag(t)

\* LangTag::unwrap
LangTag_unwrap(self) == self.text

\* AsRef<str> / Borrow<str> / Deref for LangTag
LangTag_as_ref(self) == self.text

\* LangTag::borrowed
LangTag_borrowed(self) == LangTag_new_unchecked(LangTag_as_ref(self))

\* Display for LangTag writing the tag in lower case
LangTag_fmt_lowercased(self) == to_ascii_lowercase(LangTag_as_ref(self))

\* impl Display for LangTag
LangTag_fmt(self) == LangTag_as_ref(self)

-----------------------------------------------------------------------------
(* BCP47 (RFC 5646, section 2.1), read subtag by subtag: what the claims   *)
(* about LangTag::new compare the constructor with.                        *)

IsAlpha(c) == Ch(c) \in (65..90) \cup (97..122)

IsDigit(c) == Ch(c) \in 48..57

AllAlpha(t) == \A i \in 1..Len(t) : IsAlpha(t[i])

AllDigit(t) == \A i \in 1..Len(t) : IsDigit(t[i])

AllAlnum(t) == \A i \in 1..Len(t) : IsAlpha(t[i]) \/ IsDigit(t[i])

\* the subtags of s: the pieces between hyphens
RECURSIVE SubtagsFrom(_, _, _)
SubtagsFrom(s, i, cur) ==
    IF i > Len(s) THEN <<cur>>
    ELSE IF s[i] = "-" THEN <<cur>> \o SubtagsFrom(s, i + 1, << >>)
    ELSE SubtagsFrom(s, i + 1, Append(cur, s[i]))

Subtags(s) == SubtagsFrom(s, 1, << >>)

\* extlang = 3ALPHA *2("-" 3ALPHA)
IsExtlangSubtag(t) == Len(t) = 3 /\ AllAlpha(t)

\* script = 4ALPHA
IsScript(t) == Len(t) = 4 /\ AllAlpha(t)

\* region = 2ALPHA / 3DIGIT
IsRegion(t) == (Len(t) = 2 /\ AllAlpha(t)) \/ (Len(t) = 3 /\ AllDigit(t))

\* variant = 5*8alphanum / (DIGIT 3alphanum)
IsVariant(t) ==
    \/ Len(t) \in 5..8 /\ AllAlnum(t)
    \/ Len(t) = 4 /\ IsDigit(t[1]) /\ AllAlnum(t)

\* singleton = DIGIT / %x41-57 / %x59-5A / %x61-77 / %x79-7A
IsSingleton(t) ==
    Len(t) = 1 /\ (IsAlpha(t[1]) \/ IsDigit(t[1])) /\ t[1] \notin {"x", "X"}

IsExtensionSubtag(t) == Len(t) \in 2..8 /\ AllAlnum(t)

IsPrivateSubtag(t) == Len(t) \in 1..8 /\ AllAlnum(t)

\* privateuse = "x" 1*("-" (1*8alphanum)), as the subtags from position i on
IsPrivateuseFrom(subs, i) ==
    /\ i + 1 <= Len(subs)
    /\ subs[i] \in {<<"x">>, <<"X">>}
    /\ \A j \in (i + 1)..Len(subs) : IsPrivateSubtag(subs[j])

\* the positions after which an optional subtag of kind Is(_) may have been read
AfterOptional(subs, from, Is(_)) ==
    from \cup { i + 1 : i \in { j \in from : j < Len(subs) /\ Is(subs[j + 1]) } }

\* the positions after which any number of subtags of kind Is(_) may have been read
AfterMany(subs, from, Is(_)) ==
    { j \in 0..Len(subs) : \E i \in from : i <= j /\ \A k \in (i + 1)..j : Is(subs[k]) }

\* extension = singleton 1*("-" (2*8alphanum)): the positions after one extension
AfterExtension(subs, from) ==
    LET started == { i + 2 : i \in { j \in from : /\ j + 2 <= Len(subs)
                                               /\ IsSingleton(subs[j + 1])
                                               /\ IsExtensionSubtag(subs[j + 2]) } }
    IN  AfterMany(subs, started, IsExtensionSubtag)

RECURSIVE AfterExtensions(_, _)
AfterExtensions(subs, from) ==
    LET next == from \cup AfterExtension(subs, from)
    IN  IF next = from THEN from ELSE AfterExtensions(subs, next)

\* language = 2*3ALPHA ["-" extlang] / 4ALPHA / 5*8ALPHA: the positions after it
AfterLanguage(subs) ==
    IF ~AllAlpha(subs[1]) THEN {}
    ELSE IF Len(subs[1]) \in 2..3
         THEN { 1 + k : k \in { n \in 0..3 : /\ 1 + n <= Len(subs)
                                           /\ \A j \in 2..(1 + n) : IsExtlangSubtag(subs[j]) } }
    ELSE IF Len(subs[1]) \in 4..8 THEN {1}
    ELSE {}

\* langtag = language ["-" script] ["-" region] *("-" variant) *("-" extension)
\*           ["-" privateuse]
IsLangtag(s) ==
    LET subs   == Subtags(s)
        afterL == AfterLanguage(subs)
        afterS == AfterOptional(subs, afterL, IsScript)
        afterR == AfterOptional(subs, afterS, IsRegion)
        afterV == AfterMany(subs, afterR, IsVariant)
        afterE == AfterExtensions(subs, afterV)
    IN  \/ Len(subs) \in afterE
        \/ \E i \in afterE : IsPrivateuseFrom(subs, i + 1)

IsPrivateuse(s) == IsPrivateuseFrom(Subtags(s), 1)

\* the irregular production of RFC 5646: the grandfathered tags that the langtag
\* production does not cover
IrregularGrandfathered ==
    { <<"e", "n", "-", "G", "B", "-", "o", "e", "d">>,
      <<"i", "-", "a", "m", "i">>,
      <<"i", "-", "b", "n", "n">>,
      <<"i", "-", "d", "e", "f", "a", "u", "l", "t">>,
      <<"i", "-", "e", "n", "o", "c", "h", "i", "a", "n">>,
      <<"i", "-", "h", "a", "k">>,
      <<"i", "-", "k", "l", "i", "n", "g", "o", "n">>,
      <<"i", "-", "l", "u", "x">>,
      <<"i", "-", "m", "i", "n", "g", "o">>,
      <<"i", "-", "n", "a", "v", "a", "j", "o">>,
      <<"i", "-", "p", "w", "n">>,
      <<"i", "-", "t", "a", "o">>,
      <<"i", "-", "t", "a", "y">>,
      <<"i", "-", "t", "s", "u">>,
      <<"s", "g", "n", "-", "B", "E", "-", "F", "R">>,
      <<"s", "g", "n", "-", "B", "E", "-", "N", "L">>,
      <<"s", "g", "n", "-", "C", "H", "-", "D", "E">> }

IsIrregular(s) == \E g \in IrregularGrandfathered : to_ascii_lowercase(g) = to_ascii_lowercase(s)

IsBcp47Tag(s) == IsLangtag(s) \/ IsPrivateuse(s) \/ IsIrregular(s)

-----------------------------------------------------------------------------
(* SpecTag: LangTag::new on texts built from the tests' tags                *)

MaxTagTokens == 2

\* texts of the crate's tests (regex_valid, regex_invalid, GRANDFATHERED_TAGS) and
\* the empty text
TagSeeds ==
    { << >>,
      <<"e", "n", "-", "G", "B">>,
      <<"z", "h", "-", "g", "u", "o", "y", "u">>,
      <<"i", "-", "k", "l", "i", "n", "g", "o", "n">>,
      <<"x", "-", "w", "h", "a", "t", "e", "v", "e", "r">>,
      <<"1", "2">>,
      <<"a">>,
      <<"a", "b", "-", "a", "b", "-", "a", "b", "c">>,
      <<"s", "g", "n", "-", "C", "H", "-", "D", "E">>,
      <<"E", "N", "-", "g", "b", "-", "O", "E", "D">>,
      <<"d", "e", "-", "1", "9", "9", "6">>,
      <<"e", "n", "-", "a", "-", "b", "b">> }

\* pieces appended to a text
TagTokens ==
    { <<"-">>,
      <<"a">>,
      <<"x">>,
      <<"1">>,
      <<"G", "B">>,
      <<"L", "a", "t", "n">>,
      <<"a", "b", "c", "d", "e">>,
      <<"U+212A">> }

InitTag ==
    /\ txt \in TagSeeds
    /\ ntok = 0
    /\ Idle

TagPush(tok) ==
    /\ op = "init"
    /\ ntok < MaxTagTokens
    /\ txt' = txt \o tok
    /\ ntok' = ntok + 1
    /\ UNCHANGED <<iri, tagA, tagB, lit, triple, quad, ext, op, ret>>

TagNew ==
    /\ op = "init"
    /\ tagA' = LangTag_new(txt)
    /\ op' = "LangTag::new"
    /\ ret' = tagA'
    /\ UNCHANGED <<txt, ntok, iri, tagB, lit, triple, quad, ext>>

NextTag ==
    \/ \E tok \in TagTokens : TagPush(tok)
    \/ TagNew

SpecTag == InitTag /\ [][NextTag]_vars

\* C2 (as amended): LangTag::new returns Some exactly for the texts that are, from
\* start to end, a BCP47 langtag, a privateuse tag, or one of the 17 irregular
\* grandfathered tags, letter case ignored.
C2_LangTagNewIffBcp47 ==
    op = "LangTag::new" => (ret.some <=> IsBcp47Tag(txt))

\* C2 witness: an irregular grandfathered tag, not in the casing of the list, was
\* accepted.
C2_IrregularAccepted ==
    /\ op = "LangTag::new" /\ ret.some
    /\ IsIrregular(txt) /\ txt \notin IrregularGrandfathered /\ ~IsLangtag(txt)

\* C2 as stated: the same equivalence, the irregular grandfathered tags that the
\* constructor accepts being 16 in number.
C2_SixteenIrregular ==
    /\ op = "LangTag::new" => (ret.some <=> IsBcp47Tag(txt))
    /\ Cardinality({ g \in IrregularGrandfathered : LangTag_new(g).some /\ ~IsLangtag(g) }) = 16

-----------------------------------------------------------------------------
(* SpecCase: a text and a respelling of it in another letter case, both    *)
(* handed to LangTag::new                                                  *)

MaxFlips == 1

char_to_ascii_uppercase(c) ==
    IF Ch(c) >= 97 /\ Ch(c) <= 122 THEN AsciiChar(Ch(c) - 32) ELSE c

\* str::to_ascii_uppercase
to_ascii_uppercase(s) == [ i \in 1..Len(s) |-> char_to_ascii_uppercase(s[i]) ]

\* the ASCII letter in the other case; any other character unchanged
char_flip_ascii_case(c) ==
    IF char_to_ascii_uppercase(c) # c THEN char_to_ascii_uppercase(c)
    ELSE char_to_ascii_lowercase(c)

\* regular, private-use and grandfathered tags of the crate's tests, and texts
\* that are no tag
CaseSeeds ==
    { <<"e", "n", "-", "G", "B">>,
      <<"z", "h", "-", "g", "u", "o", "y", "u">>,
      <<"i", "-", "k", "l", "i", "n", "g", "o", "n">>,
      <<"x", "-", "w", "h", "a", "t", "e", "v", "e", "r">>,
      <<"1", "2">>,
      <<"a">>,
      <<"s", "g", "n", "-", "C", "H", "-", "D", "E">>,
      <<"E", "N", "-", "g", "b", "-", "O", "E", "D">>,
      <<"d", "e", "-", "1", "9", "9", "6">>,
      <<"e", "n", "-", "a", "-", "b", "b">>,
      <<"z", "h", "-", "L", "a", "t", "n", "-", "x", "-", "a">>,
      <<"e", "n", "-", "U+212A">>,
      <<"i", "-", "k", "l", "i", "n", "g", "o", "n", "-", "x">>,
      <<"e", "n", "-", "-", "G", "B">> }

\* the regular grandfathered tags of RFC 5646 (test::GRANDFATHERED_TAGS, second half)
RegularGrandfathered ==
    { <<"a", "r", "t", "-", "l", "o", "j", "b", "a", "n">>,
      <<"c", "e", "l", "-", "g", "a", "u", "l", "i", "s", "h">>,
      <<"n", "o", "-", "b", "o", "k">>,
      <<"n", "o", "-", "n", "y", "n">>,
      <<"z", "h", "-", "g", "u", "o", "y", "u">>,
      <<"z", "h", "-", "h", "a", "k", "k", "a">>,
      <<"z", "h", "-", "m", "i", "n">>,
      <<"z", "h", "-", "m", "i", "n", "-", "n", "a", "n">>,
      <<"z", "h", "-", "x", "i", "a", "n", "g">> }

\* the positions of the characters of the texts
CasePositions == UNION { DOMAIN s : s \in CaseSeeds \cup IrregularGrandfathered \cup RegularGrandfathered }

\* txt is the text s; ext holds its respelling s'
InitCase ==
    /\ txt \in CaseSeeds \cup IrregularGrandfathered \cup RegularGrandfathered
    /\ ext = Some(txt)
    /\ ntok = 0
    /\ iri = None /\ tagA = None /\ tagB = None /\ lit = None /\ triple = None
    /\ quad = None /\ op = "init" /\ ret = None

CaseRespell(text) ==
    /\ op = "init"
    /\ text # ext.val
    /\ ext' = Some(text)
    /\ UNCHANGED <<txt, iri, tagA, tagB, lit, triple, quad, op, ret>>

\* s' in upper case
CaseUpper == CaseRespell(to_ascii_uppercase(ext.val)) /\ UNCHANGED ntok

\* s' in lower case
CaseLower == CaseRespell(to_ascii_lowercase(ext.val)) /\ UNCHANGED ntok

\* one letter of s' changes case
CaseFlip(i) ==
    /\ ntok < MaxFlips
    /\ i \in 1..Len(ext.val)
    /\ CaseRespell([ext.val EXCEPT ![i] = char_flip_ascii_case(ext.val[i])])
    /\ ntok' = ntok + 1

\* LangTag::new(s) and LangTag::new(s')
CaseNew ==
    /\ op = "init"
    /\ tagA' = LangTag_new(txt)
    /\ tagB' = LangTag_new(ext.val)
    /\ op' = "LangTag::new"
    /\ UNCHANGED <<txt, ntok, iri, lit, triple, quad, ext, ret>>

NextCase ==
    \/ CaseUpper
    \/ CaseLower
    \/ \E i \in CasePositions : CaseFlip(i)
    \/ CaseNew

SpecCase == InitCase /\ [][NextCase]_vars

\* C25: LangTag::new(s) is Some iff LangTag::new(s') is Some, for every text s
\* and every s' that differs from s in the case of ASCII letters only, its
\* all-uppercase and all-lowercase forms among them; regular, private-use and
\* grandfathered tags alike.
C25_AcceptanceIgnoresCase ==
    op = "LangTag::new" => (tagA.some <=> tagB.some)

\* the grandfathered tag i-klingon was accepted in upper case as in lower case
C25_KlingonUpperAccepted ==
    /\ op = "LangTag::new"
    /\ txt = <<"i", "-", "k", "l", "i", "n", "g", "o", "n">>
    /\ ext.val = <<"I", "-", "K", "L", "I", "N", "G", "O", "N">>
    /\ tagA.some /\ tagB.some

\* the branches of TAG_REGEX_SRC taken alone, under its flags and anchors
LangtagBranch == [TAG_REGEX_SRC EXCEPT !.re = langtag]

GrandfatheredBranch == [TAG_REGEX_SRC EXCEPT !.re = grandfathered]

\* what the claim says of a grandfathered tag s respelled as s'
GrandfatheredAccepted ==
    /\ op = "LangTag::new" /\ txt \in IrregularGrandfathered =>
           tagB.some /\ is_match(GrandfatheredBranch, ext.val)
    /\ op = "LangTag::new" /\ txt \in RegularGrandfathered =>
           /\ tagB.some
           /\ is_match(LangtagBranch, ext.val)
           /\ ~is_match(GrandfatheredBranch, ext.val)

\* the enumeration lists n tags, the irregular grandfathered tags among them
Enumerates(n) ==
    /\ Len(grandfathered.items) = n
    /\ \A g \in IrregularGrandfathered : is_match(GrandfatheredBranch, g)

\* C26 as stated: the grandfathered branch enumerates exactly 16 literal
\* irregular tags, each accepted in any casing, and every regular
\* grandfathered tag is accepted through the regular langtag form without
\* being in the enumeration.
C26_SixteenEnumerated ==
    Enumerates(16) /\ GrandfatheredAccepted

\* C26, amended: the grandfathered branch enumerates exactly 17 literal
\* irregular tags, each accepted in any casing, and every regular
\* grandfathered tag is accepted through the regular langtag form without
\* being in the enumeration.
C26_SeventeenEnumerated ==
    Enumerates(17) /\ GrandfatheredAccepted

\* the regular grandfathered tag zh-min-nan, in upper case, was accepted
C26_RegularGrandfatheredAccepted ==
    /\ op = "LangTag::new" /\ tagB.some
    /\ txt = <<"z", "h", "-", "m", "i", "n", "-", "n", "a", "n">>
    /\ ext.val = <<"Z", "H", "-", "M", "I", "N", "-", "N", "A", "N">>

-----------------------------------------------------------------------------
(* SpecSuffix: a tag t and a text u; LangTag::new of t and of t-u          *)

MaxSuffixTokens == 2

\* tags with each of the optional parts (extlang, script, region, variant,
\* extension, privateuse), with all of them, with none; a private-use tag and
\* a text that is no tag
SuffixTags ==
    { <<"e", "n">>,
      <<"e", "n", "-", "G", "B">>,
      <<"z", "h", "-", "c", "m", "n", "-", "H", "a", "n", "s", "-", "C", "N">>,
      <<"d", "e", "-", "1", "9", "9", "6">>,
      <<"s", "l", "-", "r", "o", "z", "a", "j", "-", "b", "i", "s", "k", "e">>,
      <<"e", "n", "-", "a", "-", "b", "b">>,
      <<"e", "n", "-", "x", "-", "a">>,
      <<"a", "b", "c", "d", "e", "f", "g", "h">>,
      <<"d", "e", "-", "L", "a", "t", "n", "-", "D", "E", "-", "1", "9", "9", "6", "-", "a", "-", "b", "b", "-", "x", "-", "a">>,
      <<"x", "-", "w", "h", "a", "t", "e", "v", "e", "r">>,
      <<"a">> }

\* what u starts as: nothing, one letter, eight letters
SuffixSeeds ==
    { <<>>,
      <<"a">>,
      <<"a", "b", "c", "d", "e", "f", "g", "h">> }

\* characters appended to u
SuffixTokens == { <<"a">>, <<"1">>, <<"@">>, <<"-">>, <<"U+212A">>, <<"U+000A">> }

\* txt is the tag t; ext holds u
InitSuffix ==
    /\ txt \in SuffixTags
    /\ ext \in { Some(u) : u \in SuffixSeeds }
    /\ ntok = 0
    /\ iri = None /\ tagA = None /\ tagB = None /\ lit = None /\ triple = None
    /\ quad = None /\ op = "init" /\ ret = None

SuffixPush(tok) ==
    /\ op = "init"
    /\ ntok < MaxSuffixTokens
    /\ ext' = Some(ext.val \o tok)
    /\ ntok' = ntok + 1
    /\ UNCHANGED <<txt, iri, tagA, tagB, lit, triple, quad, op, ret>>

\* format!("{tag}-{invalid_suffix}")
Suffixed(tag, suffix) == tag \o <<"-">> \o suffix

\* LangTag::new(t) and LangTag::new(t-u)
SuffixNew ==
    /\ op = "init"
    /\ tagA' = LangTag_new(txt)
    /\ tagB' = LangTag_new(Suffixed(txt, ext.val))
    /\ op' = "LangTag::new"
    /\ UNCHANGED <<txt, ntok, iri, lit, triple, quad, ext, ret>>

NextSuffix ==
    \/ \E tok \in SuffixTokens : SuffixPush(tok)
    \/ SuffixNew

SpecSuffix == InitSuffix /\ [][NextSuffix]_vars

\* u is one subtag (it holds no '-') and is ill-formed: longer than 8
\* characters, or with a character that is no ASCII letter or digit
IllFormedSubtag(u) ==
    /\ ~HasChar(u, "-")
    /\ Len(u) > 8 \/ ~AllAlnum(u)

-----------------------------------------------------------------------------
(* statement/src/_literal/_language_tag.rs: Hash, PartialEq, PartialOrd    *)
(* and the derived Ord of LangTag                                          *)

\* LangTag::unchecked_map
LangTag_unchecked_map(self, f) == LangTag(f[self.text])

\* A Hasher, as what has been written to it.
Hasher_new == << >>

\* <str as Hash>::hash: the text is written to the hasher
str_hash(s, state) == Append(state, s)

\* Hash for LangTag, with the text written as it is
LangTag_hash_raw(self, state) == str_hash(LangTag_as_ref(self), state)

\* Hash for LangTag
LangTag_hash(self, state) == str_hash(to_ascii_lowercase(LangTag_as_ref(self)), state)

\* PartialEq for LangTag
LangTag_eq(self, other) == eq_ignore_ascii_case(LangTag_as_ref(self), LangTag_as_ref(other))

\* PartialEq<&str> for LangTag
LangTag_eq_str(self, other) == eq_ignore_ascii_case(LangTag_as_ref(self), other)

\* PartialEq<LangTag> for &str
str_eq_LangTag(self, other) == eq_ignore_ascii_case(self, LangTag_as_ref(other))

\* PartialOrd for LangTag
LangTag_partial_cmp(self, other) ==
    Some(str_cmp(to_ascii_lowercase(self.text), to_ascii_lowercase(other.text)))

\* PartialOrd<&str> for LangTag
LangTag_partial_cmp_str(self, other) ==
    Some(str_cmp(to_ascii_lowercase(self.text), to_ascii_lowercase(other)))

\* PartialOrd<LangTag> for &str
str_partial_cmp_LangTag(self, other) ==
    Some(str_cmp(to_ascii_lowercase(self), to_ascii_lowercase(other.text)))

\* #[derive(Ord)]: Ord::cmp compares the field, the text as it is
LangTag_cmp(self, other) == str_cmp(self.text, other.text)

-----------------------------------------------------------------------------
(* SpecCmp: two tags made with new_unchecked and changed with              *)
(* unchecked_map, then compared or hashed                                  *)

MaxCmpTokens == 2

\* the tags of test::case_insensitive, and a one-letter text
CmpSeeds ==
    { <<"e", "n", "-", "G", "B">>,
      <<"e", "n", "-", "g", "b">>,
      <<"E", "N">>,
      <<"E", "N", "-", "Z", "Z">>,
      <<"k">> }

\* pieces that unchecked_map appends
CmpTokens ==
    { <<"-">>,
      <<"G", "B">>,
      <<"g", "b">>,
      <<"K">>,
      <<"U+212A">> }

InitCmp ==
    /\ tagA \in { Some(LangTag_new_unchecked(s)) : s \in CmpSeeds }
    /\ tagB \in { Some(LangTag_new_unchecked(s)) : s \in CmpSeeds }
    /\ txt = << >> /\ ntok = 0
    /\ iri = None /\ lit = None /\ triple = None /\ quad = None /\ ext = None
    /\ op = "init" /\ ret = None

CmpMapA(tok) ==
    /\ op = "init" /\ ntok < MaxCmpTokens
    /\ tagA' = Some(LangTag_unchecked_map(tagA.val, [t \in {tagA.val.text} |-> t \o tok]))
    /\ ntok' = ntok + 1
    /\ UNCHANGED <<txt, iri, tagB, lit, triple, quad, ext, op, ret>>

CmpMapB(tok) ==
    /\ op = "init" /\ ntok < MaxCmpTokens
    /\ tagB' = Some(LangTag_unchecked_map(tagB.val, [t \in {tagB.val.text} |-> t \o tok]))
    /\ ntok' = ntok + 1
    /\ UNCHANGED <<txt, iri, tagA, lit, triple, quad, ext, op, ret>>

\* one comparison or hashing of the two tags; name is the operation, result its value
CmpReturn(name, result) ==
    /\ op = "init"
    /\ op' = name
    /\ ret' = result
    /\ UNCHANGED <<txt, ntok, iri, tagA, tagB, lit, triple, quad, ext>>

CmpEq == CmpReturn("eq", LangTag_eq(tagA.val, tagB.val))

CmpEqStr == CmpReturn("eq_str", LangTag_eq_str(tagA.val, LangTag_as_ref(tagB.val)))

CmpStrEq == CmpReturn("str_eq", str_eq_LangTag(LangTag_as_ref(tagA.val), tagB.val))

CmpPartialCmp == CmpReturn("partial_cmp", LangTag_partial_cmp(tagA.val, tagB.val))

CmpPartialCmpStr ==
    CmpReturn("partial_cmp_str", LangTag_partial_cmp_str(tagA.val, LangTag_as_ref(tagB.val)))

CmpStrPartialCmp ==
    CmpReturn("str_partial_cmp", str_partial_cmp_LangTag(LangTag_as_ref(tagA.val), tagB.val))

CmpOrd == CmpReturn("cmp", LangTag_cmp(tagA.val, tagB.val))

CmpHash ==
    CmpReturn("hash", [ a |-> LangTag_hash(tagA.val, Hasher_new),
                        b |-> LangTag_hash(tagB.val, Hasher_new) ])

NextCmp ==
    \/ \E tok \in CmpTokens : CmpMapA(tok)
    \/ \E tok \in CmpTokens : CmpMapB(tok)
    \/ CmpEq
    \/ CmpEqStr
    \/ CmpStrEq
    \/ CmpPartialCmp
    \/ CmpPartialCmpStr
    \/ CmpStrPartialCmp
    \/ CmpOrd
    \/ CmpHash

SpecCmp == InitCmp /\ [][NextCmp]_vars

\* the two tags' texts agree once ASCII-lowercased
SameLowercased == to_ascii_lowercase(tagA.val.text) = to_ascii_lowercase(tagB.val.text)

\* C3: equality of two tags, of a tag and a &str, and of a &str and a tag is equality
\* of the ASCII-lowercased texts, and equal tags hash alike.
C3_EqHashCaseInsensitive ==
    /\ op \in {"eq", "eq_str", "str_eq"} => (ret <=> SameLowercased)
    /\ op = "hash" => (SameLowercased => ret.a = ret.b)

\* C3 witness: two tags that differ in letter case only were hashed, alike.
C3_HashedAlike ==
    /\ op = "hash" /\ tagA.val.text # tagB.val.text /\ SameLowercased /\ ret.a = ret.b

\* the ordering of the ASCII-lowercased texts
LowercasedOrdering ==
    str_cmp(to_ascii_lowercase(tagA.val.text), to_ascii_lowercase(tagB.val.text))

\* C4: every ordering operation on LangTag (Ord::cmp, partial_cmp between tags and
\* against &str in both argument orders) returns the ordering of the
\* ASCII-lowercased texts, so the tags are equal iff their ordering is Equal.
C4_OrderingCaseInsensitive ==
    /\ op \in {"partial_cmp", "partial_cmp_str", "str_partial_cmp"}
           => /\ ret = Some(LowercasedOrdering)
              /\ (ret.val = "Equal") <=> LangTag_eq(tagA.val, tagB.val)
    /\ op = "cmp"
           => /\ ret = LowercasedOrdering
              /\ (ret = "Equal") <=> LangTag_eq(tagA.val, tagB.val)

-----------------------------------------------------------------------------
(* SpecBorrow: a LangTag, the &str that Borrow<str> gives for it, and a    *)
(* HashSet<LangTag> holding the tag, queried by text                       *)

\* Borrow<str> for LangTag: borrow
LangTag_borrow(self) == self.text

\* HashSet<LangTag>::contains::<str>(q) on the set holding key alone: std
\* looks the key up by the hash of q and compares q with key.borrow(), as str
HashSet_contains(key, q) ==
    /\ str_hash(q, Hasher_new) = LangTag_hash(key, Hasher_new)
    /\ q = LangTag_borrow(key)

InitBorrow ==
    /\ tagA \in { Some(LangTag_new_unchecked(s)) : s \in CmpSeeds }
    /\ tagB = None
    /\ txt = << >> /\ ntok = 0
    /\ iri = None /\ lit = None /\ triple = None /\ quad = None /\ ext = None
    /\ op = "init" /\ ret = None

\* hash(t), hash(t.borrow()) and t == t.borrow()
BorrowHash ==
    CmpReturn("Borrow::borrow",
              [ hash_tag |-> LangTag_hash(tagA.val, Hasher_new),
                hash_str |-> str_hash(LangTag_borrow(tagA.val), Hasher_new),
                eq       |-> LangTag_eq_str(tagA.val, LangTag_borrow(tagA.val)) ])

\* the text of the tag as it is, in upper case or in lower case
Respelled(t, casing) ==
    CASE casing = "own" -> t
      [] casing = "upper" -> to_ascii_uppercase(t)
      [] casing = "lower" -> to_ascii_lowercase(t)

\* HashSet::from([t]).contains(q), q the text of t in some casing
BorrowContains(casing) ==
    CmpReturn("HashSet::contains",
              [ casing |-> casing,
                found  |-> HashSet_contains(tagA.val,
                                            Respelled(LangTag_borrow(tagA.val), casing)) ])

NextBorrow ==
    \/ \E tok \in CmpTokens : CmpMapA(tok)
    \/ BorrowHash
    \/ \E casing \in {"own", "upper", "lower"} : BorrowContains(casing)

SpecBorrow == InitBorrow /\ [][NextBorrow]_vars

\* C30: the hash of a LangTag agrees with its borrowed string view: hash(t)
\* equals the hash of the &str that Borrow<str>::borrow(t) returns, and t ==
\* that &str, so a hash-keyed collection of LangTag finds the tag by its own
\* text in any casing.
C30_HashAgreesWithBorrow ==
    /\ op = "Borrow::borrow" => ret.hash_tag = ret.hash_str /\ ret.eq
    /\ op = "HashSet::contains" => ret.found

-----------------------------------------------------------------------------
(* SpecText: an Iri or a LangTag is made from a text, and the text is read *)
(* back                                                                    *)

MaxTextTokens == 2

\* IRIs and tags in two spellings that differ in letter case only, and a text
\* that is neither
TextSeeds ==
    { <<"H", "T", "T", "P", ":", "/", "/", "E", "x", "a", "m", "p", "l", "e", ".", "o", "r", "g", "/", "%", "C", "3", "%", "A", "9">>,
      <<"h", "t", "t", "p", ":", "/", "/", "e", "x", "a", "m", "p", "l", "e", ".", "o", "r", "g", "/", "%", "c", "3", "%", "a", "9">>,
      <<"e", "n", "-", "G", "B">>,
      <<"E", "N", "-", "g", "b">>,
      <<"f", "o", "o">> }

\* pieces appended to a text
TextTokens ==
    { <<"A">>,
      <<"a">>,
      <<"%", "2", "f">>,
      <<"%", "2", "F">>,
      <<"-", "x">> }

InitText ==
    /\ txt \in TextSeeds
    /\ ntok = 0
    /\ Idle

TextPush(tok) ==
    /\ op = "init"
    /\ ntok < MaxTextTokens
    /\ txt' = txt \o tok
    /\ ntok' = ntok + 1
    /\ UNCHANGED <<iri, tagA, tagB, lit, triple, quad, ext, op, ret>>

TextIriNew ==
    /\ op = "init"
    /\ iri' = Iri_new(txt)
    /\ op' = "Iri::new"
    /\ ret' = iri'
    /\ UNCHANGED <<txt, ntok, tagA, tagB, lit, triple, quad, ext>>

TextIriNewUnchecked ==
    /\ op = "init"
    /\ iri' = Some(Iri_new_unchecked(txt))
    /\ op' = "Iri::new_unchecked"
    /\ ret' = iri'
    /\ UNCHANGED <<txt, ntok, tagA, tagB, lit, triple, quad, ext>>

TextTagNew ==
    /\ op = "init"
    /\ tagA' = LangTag_new(txt)
    /\ op' = "LangTag::new"
    /\ ret' = tagA'
    /\ UNCHANGED <<txt, ntok, iri, tagB, lit, triple, quad, ext>>

TextTagNewUnchecked ==
    /\ op = "init"
    /\ tagA' = Some(LangTag_new_unchecked(txt))
    /\ op' = "LangTag::new_unchecked"
    /\ ret' = tagA'
    /\ UNCHANGED <<txt, ntok, iri, tagB, lit, triple, quad, ext>>

\* as_ref, borrow or deref of the Iri that was made
TextIriAsRef ==
    /\ op \in {"Iri::new", "Iri::new_unchecked"} /\ iri.some
    /\ op' = "Iri::as_ref"
    /\ ret' = Iri_as_ref(iri.val)
    /\ UNCHANGED <<txt, ntok, iri, tagA, tagB, lit, triple, quad, ext>>

\* unwrap of the Iri that was made: the value is consumed
TextIriUnwrap ==
    /\ op \in {"Iri::new", "Iri::new_unchecked"} /\ iri.some
    /\ op' = "Iri::unwrap"
    /\ ret' = Iri_unwrap(iri.val)
    /\ iri' = None
    /\ UNCHANGED <<txt, ntok, tagA, tagB, lit, triple, quad, ext>>

\* as_ref, borrow or deref of the LangTag that was made
TextTagAsRef ==
    /\ op \in {"LangTag::new", "LangTag::new_unchecked"} /\ tagA.some
    /\ op' = "LangTag::as_ref"
    /\ ret' = LangTag_as_ref(tagA.val)
    /\ UNCHANGED <<txt, ntok, iri, tagA, tagB, lit, triple, quad, ext>>

\* unwrap of the LangTag that was made: the value is consumed
TextTagUnwrap ==
    /\ op \in {"LangTag::new", "LangTag::new_unchecked"} /\ tagA.some
    /\ op' = "LangTag::unwrap"
    /\ ret' = LangTag_unwrap(tagA.val)
    /\ tagA' = None
    /\ UNCHANGED <<txt, ntok, iri, tagB, lit, triple, quad, ext>>

\* to_string() of the Iri that was made
TextIriDisplay ==
    /\ op \in {"Iri::new", "Iri::new_unchecked"} /\ iri.some
    /\ op' = "Iri::fmt"
    /\ ret' = Iri_fmt(iri.val)
    /\ UNCHANGED <<txt, ntok, iri, tagA, tagB, lit, triple, quad, ext>>

\* to_string() of the LangTag that was made
TextTagDisplay ==
    /\ op \in {"LangTag::new", "LangTag::new_unchecked"} /\ tagA.some
    /\ op' = "LangTag::fmt"
    /\ ret' = LangTag_fmt(tagA.val)
    /\ UNCHANGED <<txt, ntok, iri, tagA, tagB, lit, triple, quad, ext>>

NextText ==
    \/ \E tok \in TextTokens : TextPush(tok)
    \/ TextIriNew
    \/ TextIriNewUnchecked
    \/ TextTagNew
    \/ TextTagNewUnchecked
    \/ TextIriAsRef
    \/ TextIriUnwrap
    \/ TextTagAsRef
    \/ TextTagUnwrap
    \/ TextIriDisplay
    \/ TextTagDisplay

SpecText == InitText /\ [][NextText]_vars

\* C5: the text read back (as_ref, deref, unwrap) from an Iri or a LangTag made by
\* new or new_unchecked is the text it was made from, character for character.
C5_ConstructionRoundTrip ==
    op \in {"Iri::as_ref", "Iri::unwrap", "LangTag::as_ref", "LangTag::unwrap"} => ret = txt

\* C5 witness: a text with upper-case letters that Iri::new accepts was read back
\* unchanged.
C5_MixedCaseReadBack ==
    /\ op = "Iri::unwrap" /\ ret = txt
    /\ Iri_new(txt).some /\ to_ascii_lowercase(txt) # txt

\* C11: Iri::new and LangTag::new return a value for every text: Some of the
\* Iri or LangTag holding that text when the text matches the grammar's regex,
\* None otherwise, and after None no Iri or LangTag exists.
C11_ConstructorsTotal ==
    /\ op = "Iri::new" =>
           /\ ret \in {None, Some(Iri(txt))}
           /\ ret.some <=> is_match(IRI_REGEX, txt)
           /\ ~ret.some => iri = None
    /\ op = "LangTag::new" =>
           /\ ret \in {None, Some(LangTag(txt))}
           /\ ret.some <=> is_match(TAG_REGEX, txt)
           /\ ~ret.some => tagA = None

\* a text that is an IRI and not a language tag was given to LangTag::new
C11_InvalidTagIsNone ==
    /\ op = "LangTag::new" /\ ret = None /\ tagA = None
    /\ is_match(IRI_REGEX, txt) /\ Len(txt) > 0

\* C13: an Iri made from the text t displays as "<", t, ">", and a LangTag made
\* from t displays as t itself, letter case included.
C13_Display ==
    /\ op = "Iri::fmt" => ret = <<"<">> \o txt \o <<">">>
    /\ op = "LangTag::fmt" => ret = txt

\* a tag accepted by LangTag::new was displayed, and the tag of the same text in
\* lower case, which is equal to it, displays differently
C13_EqualTagsDisplayedApart ==
    /\ op = "LangTag::fmt" /\ LangTag_new(txt).some
    /\ LangTag_eq(tagA.val, LangTag_new_unchecked(to_ascii_lowercase(txt)))
    /\ ret # LangTag_fmt(LangTag_new_unchecked(to_ascii_lowercase(txt)))

-----------------------------------------------------------------------------
(* statement/src/_literal.rs: Literal                                      *)

\* BaseDir
BaseDir == {"Ltr", "Rtl"}

\* Literal::Typed(lex, iri)
Literal_Typed(lex, datatype) == [kind |-> "Typed", lex |-> lex, iri |-> datatype]

\* Literal::LanguageString(lex, lang_tag, base_dir)
Literal_LanguageString(lex, lang_tag, base_dir) ==
    [kind |-> "LanguageString", lex |-> lex, lang_tag |-> lang_tag, base_dir |-> base_dir]

RDF_LANG_STRING ==
    <<"h", "t", "t", "p", ":", "/", "/", "w", "w", "w", ".", "w", "3", ".", "o", "r", "g",
       "/", "1", "9", "9", "9", "/", "0", "2", "/", "2", "2", "-", "r", "d", "f", "-", "s", "y",
       "n", "t", "a", "x", "-", "n", "s", "#", "l", "a", "n", "g", "S", "t", "r", "i", "n", "g">>

RDF_DIR_LANG_STRING ==
    <<"h", "t", "t", "p", ":", "/", "/", "w", "w", "w", ".", "w", "3", ".", "o", "r", "g",
       "/", "1", "9", "9", "9", "/", "0", "2", "/", "2", "2", "-", "r", "d", "f", "-", "s", "y",
       "n", "t", "a", "x", "-", "n", "s", "#", "d", "i", "r", "L", "a", "n", "g", "S", "t", "r",
       "i", "n", "g">>

\* Literal::borrowed
Literal_borrowed(self) ==
    CASE self.kind = "Typed" -> Literal_Typed(self.lex, Iri_borrowed(self.iri))
      [] self.kind = "LanguageString" ->
             Literal_LanguageString(self.lex, LangTag_borrowed(self.lang_tag), self.base_dir)

\* Literal::lexical_form
Literal_lexical_form(self) == self.lex

\* Literal::language_tag
Literal_language_tag(self) ==
    IF self.kind = "LanguageString" THEN Some(LangTag_borrowed(self.lang_tag)) ELSE None

\* Literal::base_direction with the default direction where none is stored
Literal_base_direction_or_default(self) ==
    IF self.kind = "LanguageString"
    THEN (IF self.base_dir.some THEN Some(self.base_dir.val) ELSE Some("Ltr"))
    ELSE None

\* Literal::base_direction
Literal_base_direction(self) ==
    IF self.kind = "LanguageString" /\ self.base_dir.some THEN Some(self.base_dir.val) ELSE None

\* Literal::datatype_iri with the base direction left out of account
Literal_datatype_iri_undirected(self) ==
    CASE self.kind = "Typed" -> Iri_borrowed(self.iri)
      [] self.kind = "LanguageString" -> Iri_new_unchecked(RDF_LANG_STRING)

\* Literal::datatype_iri
Literal_datatype_iri(self) ==
    CASE self.kind = "Typed" -> Iri_borrowed(self.iri)
      [] self.kind = "LanguageString" /\ self.base_dir = None -> Iri_new_unchecked(RDF_LANG_STRING)
      [] self.kind = "LanguageString" /\ self.base_dir.some -> Iri_new_unchecked(RDF_DIR_LANG_STRING)

-----------------------------------------------------------------------------
(* statement/src/_subject.rs, _object.rs, _graph_name.rs, _triple.rs,      *)
(* _quad.rs: the proxies, taken as the implementation of the traits, and   *)
(* the provided methods                                                    *)

\* SubjectProxy::Iri, ObjectProxy::Iri, GraphNameProxy::Iri
Proxy_Iri(i) == [kind |-> "Iri", iri |-> i]

\* SubjectProxy::BlankNode, ObjectProxy::BlankNode, GraphNameProxy::BlankNode
Proxy_BlankNode(bnid) == [kind |-> "BlankNode", id |-> bnid]

\* ObjectProxy::Literal
ObjectProxy_Literal(l) == [kind |-> "Literal", literal |-> l]

\* ObjectProxy::Triple
ObjectProxy_Triple(t) == [kind |-> "Triple", triple |-> t]

\* a triple: what subject(), predicate() and object() return
TripleOf(s, p, o) == [s |-> s, p |-> p, o |-> o]

\* a quad: what subject(), predicate(), object() and graph_name() return
QuadOf(s, p, o, g) == [s |-> s, p |-> p, o |-> o, g |-> g]

\* Subject::subject_kind
Subject_subject_kind(self) == self.kind

\* Subject::ground
Subject_ground(self) ==
    CASE Subject_subject_kind(self) = "Iri" -> TRUE
      [] Subject_subject_kind(self) = "BlankNode" -> FALSE

\* GraphName::graph_name_kind
GraphName_graph_name_kind(self) == self.kind

\* GraphName::is_iri
GraphName_is_iri(self) == GraphName_graph_name_kind(self) = "Iri"

\* GraphName::is_blank_node
GraphName_is_blank_node(self) == GraphName_graph_name_kind(self) = "BlankNode"

\* GraphName::as_iri
GraphName_as_iri(self) == IF self.kind = "Iri" THEN Some(self.iri) ELSE None

\* GraphName::as_blank_node
GraphName_as_blank_node(self) == IF self.kind = "BlankNode" THEN Some(self.id) ELSE None

\* GraphName::ground
GraphName_ground(self) ==
    CASE GraphName_graph_name_kind(self) = "Iri" -> TRUE
      [] GraphName_graph_name_kind(self) = "BlankNode" -> FALSE

\* Object::object_kind
Object_object_kind(self) == self.kind

\* Object::as_triple
Object_as_triple(self) == IF self.kind = "Triple" THEN Some(self.triple) ELSE None

\* Object::is_iri
Object_is_iri(self) == Object_object_kind(self) = "Iri"

\* Object::is_blank_node
Object_is_blank_node(self) == Object_object_kind(self) = "BlankNode"

\* Object::is_literal taking the triple terms for literals
Object_is_literal_or_triple(self) == Object_object_kind(self) \in {"Literal", "Triple"}

\* Object::is_literal
Object_is_literal(self) == Object_object_kind(self) = "Literal"

\* Object::is_triple
Object_is_triple(self) == Object_object_kind(self) = "Triple"

\* Object::as_iri
Object_as_iri(self) == IF self.kind = "Iri" THEN Some(self.iri) ELSE None

\* Object::as_blank_node
Object_as_blank_node(self) == IF self.kind = "BlankNode" THEN Some(self.id) ELSE None

\* Object::as_literal
Object_as_literal(self) == IF self.kind = "Literal" THEN Some(self.literal) ELSE None

RECURSIVE Object_ground(_), Triple_ground(_)

\* Object::ground with a triple term taken as ground whatever it holds
Object_ground_shallow(self) ==
    CASE Object_object_kind(self) \in {"Iri", "Literal"} -> TRUE
      [] Object_object_kind(self) = "BlankNode" -> FALSE
      [] Object_object_kind(self) = "Triple" -> TRUE

\* Object::ground
Object_ground(self) ==
    CASE Object_object_kind(self) \in {"Iri", "Literal"} -> TRUE
      [] Object_object_kind(self) = "BlankNode" -> FALSE
      [] Object_object_kind(self) = "Triple" -> Triple_ground(Object_as_triple(self).val)

\* Triple::ground with the subject alone deciding
Triple_ground_subject_only(self) == Subject_ground(self.s)

\* Triple::ground
Triple_ground(self) == Subject_ground(self.s) /\ Object_ground(self.o)

\* Quad::ground with the graph name left out of account
Quad_ground_without_graph(self) == Subject_ground(self.s) /\ Object_ground(self.o)

\* Quad::ground
Quad_ground(self) ==
    /\ Subject_ground(self.s)
    /\ Object_ground(self.o)
    /\ IF self.g.some THEN GraphName_ground(self.g.val) ELSE TRUE

\* the method of the trait named role called on self: its value, or no value
\* where the trait has no method of that name (the call does not compile)
Returned(value) == [defined |-> TRUE, value |-> value]

NoMethod == [defined |-> FALSE]

Role_call(role, method, self) ==
    CASE role = "Subject" /\ method = "kind" -> Returned(Subject_subject_kind(self))
      [] role = "GraphName" /\ method = "kind" -> Returned(GraphName_graph_name_kind(self))
      [] role = "GraphName" /\ method = "is_iri" -> Returned(GraphName_is_iri(self))
      [] role = "GraphName" /\ method = "is_blank_node" -> Returned(GraphName_is_blank_node(self))
      [] role = "GraphName" /\ method = "as_iri" -> Returned(GraphName_as_iri(self))
      [] role = "GraphName" /\ method = "as_blank_node" -> Returned(GraphName_as_blank_node(self))
      [] role = "Object" /\ method = "kind" -> Returned(Object_object_kind(self))
      [] role = "Object" /\ method = "is_iri" -> Returned(Object_is_iri(self))
      [] role = "Object" /\ method = "is_blank_node" -> Returned(Object_is_blank_node(self))
      [] role = "Object" /\ method = "is_literal" -> Returned(Object_is_literal(self))
      [] role = "Object" /\ method = "is_triple" -> Returned(Object_is_triple(self))
      [] role = "Object" /\ method = "as_iri" -> Returned(Object_as_iri(self))
      [] role = "Object" /\ method = "as_blank_node" -> Returned(Object_as_blank_node(self))
      [] role = "Object" /\ method = "as_literal" -> Returned(Object_as_literal(self))
      [] role = "Object" /\ method = "as_triple" -> Returned(Object_as_triple(self))
      [] OTHER -> NoMethod

\* the derived operations a role of the given proxy shape is said to have
RoleMethods(role) ==
    IF role = "Object"
    THEN {"kind", "is_iri", "is_blank_node", "is_literal", "is_triple",
          "as_iri", "as_blank_node", "as_literal", "as_triple"}
    ELSE {"kind", "is_iri", "is_blank_node", "as_iri", "as_blank_node"}

\* impl_oxrdf.rs: XSD_STRING
XSD_STRING ==
    <<"h", "t", "t", "p", ":", "/", "/", "w", "w", "w", ".", "w", "3", ".", "o", "r", "g",
     "/", "2", "0", "0", "1", "/", "X", "M", "L", "S", "c", "h", "e", "m", "a", "#", "s", "t",
     "r", "i", "n", "g">>

\* impl_oxrdf.rs, test_round_trip: XSD_INTEGER
XSD_INTEGER ==
    <<"h", "t", "t", "p", ":", "/", "/", "w", "w", "w", ".", "w", "3", ".", "o", "r", "g",
     "/", "2", "0", "0", "1", "/", "X", "M", "L", "S", "c", "h", "e", "m", "a", "#", "i", "n",
     "t", "e", "g", "e", "r">>

-----------------------------------------------------------------------------
(* SpecLiteral: the projections of a Literal                               *)

\* literals of both variants; the datatypes of the typed ones include the two
\* IRIs that datatype_iri returns for language strings
LiteralValues ==
    { Literal_Typed(lex, Iri_new_unchecked(dt)) :
          lex \in {<<"4", "2">>, <<"c", "h", "a", "t">>},
          dt \in {XSD_INTEGER, RDF_LANG_STRING, RDF_DIR_LANG_STRING} }
    \cup
    { Literal_LanguageString(lex, LangTag_new_unchecked(tag), dir) :
          lex \in {<<"4", "2">>, <<"c", "h", "a", "t">>},
          tag \in {<<"e", "n">>, <<"f", "r", "-", "F", "R">>},
          dir \in {None} \cup { Some(d) : d \in BaseDir } }

\* ext holds what each projection returned, once it was called
InitLiteral ==
    /\ lit \in { Some(l) : l \in LiteralValues }
    /\ ext = [ lexical_form |-> None, datatype_iri |-> None,
               language_tag |-> None, base_direction |-> None ]
    /\ txt = << >> /\ ntok = 0
    /\ iri = None /\ tagA = None /\ tagB = None /\ triple = None /\ quad = None
    /\ op = "init" /\ ret = None

LiteralProjected(name, projections) ==
    /\ ext' = projections
    /\ op' = name
    /\ UNCHANGED <<txt, ntok, iri, tagA, tagB, lit, triple, quad, ret>>

LiteralLexicalForm ==
    /\ ext.lexical_form = None
    /\ LiteralProjected("Literal::lexical_form",
                        [ext EXCEPT !.lexical_form = Some(Literal_lexical_form(lit.val))])

LiteralDatatypeIri ==
    /\ ext.datatype_iri = None
    /\ LiteralProjected("Literal::datatype_iri",
                        [ext EXCEPT !.datatype_iri = Some(Literal_datatype_iri(lit.val))])

LiteralLanguageTag ==
    /\ ext.language_tag = None
    /\ LiteralProjected("Literal::language_tag",
                        [ext EXCEPT !.language_tag = Some(Literal_language_tag(lit.val))])

LiteralBaseDirection ==
    /\ ext.base_direction = None
    /\ LiteralProjected("Literal::base_direction",
                        [ext EXCEPT !.base_direction = Some(Literal_base_direction(lit.val))])

NextLiteral ==
    \/ LiteralLexicalForm
    \/ LiteralDatatypeIri
    \/ LiteralLanguageTag
    \/ LiteralBaseDirection

SpecLiteral == InitLiteral /\ [][NextLiteral]_vars

\* what the claim says of lexical_form, language_tag and base_direction
ProjectionsOfVariant ==
    /\ ext.lexical_form.some => ext.lexical_form.val = lit.val.lex
    /\ ext.language_tag.some =>
           IF lit.val.kind = "LanguageString"
           THEN ext.language_tag.val = Some(LangTag(lit.val.lang_tag.text))
           ELSE ext.language_tag.val = None
    /\ ext.base_direction.some =>
           IF lit.val.kind = "LanguageString"
           THEN ext.base_direction.val = lit.val.base_dir
           ELSE ext.base_direction.val = None
    /\ ext.base_direction.some /\ ext.language_tag.some =>
           (ext.base_direction.val.some => ext.language_tag.val.some)

\* datatype_iri returned rdf:dirLangString
IsDirLangString == ext.datatype_iri.val.text = RDF_DIR_LANG_STRING

\* C28 as stated: lexical_form returns the stored text for both variants;
\* language_tag is Some(tag) iff the literal is a LanguageString;
\* base_direction is Some(d) iff it is a LanguageString stored with d; so
\* base_direction Some implies language_tag Some, and datatype_iri is
\* rdf:dirLangString iff base_direction is Some.
C28_DirLangStringIffDirection ==
    /\ ProjectionsOfVariant
    /\ ext.datatype_iri.some /\ ext.base_direction.some =>
           (IsDirLangString <=> ext.base_direction.val.some)

\* C28, amended: the same, with the last clause for a LanguageString only:
\* base_direction Some implies datatype_iri is rdf:dirLangString, and the
\* datatype_iri of a LanguageString is rdf:dirLangString only if its
\* base_direction is Some; a Typed literal returns its stored datatype.
C28_Projections ==
    /\ ProjectionsOfVariant
    /\ ext.datatype_iri.some /\ ext.base_direction.some =>
           /\ ext.base_direction.val.some => IsDirLangString
           /\ lit.val.kind = "LanguageString" /\ IsDirLangString => ext.base_direction.val.some
           /\ lit.val.kind = "Typed" => ext.datatype_iri.val.text = lit.val.iri.text

\* a typed literal whose datatype is rdf:dirLangString returned that datatype
\* and no base direction
C28_TypedDirLangString ==
    /\ lit.val.kind = "Typed"
    /\ ext.datatype_iri = Some(Iri(RDF_DIR_LANG_STRING))
    /\ ext.base_direction = Some(None)
    /\ ext.lexical_form = Some(<<"c", "h", "a", "t">>)
    /\ ext.language_tag = Some(None)

-----------------------------------------------------------------------------
(* SpecTerm: triples and quads made of proxies, with triple terms nested   *)
(* in object position, and their groundness                                *)

MaxDepth == 2

TermIris ==
    [ s |-> <<"s", ":", "a">>, p |-> <<"p", ":", "a">>, q |-> <<"p", ":", "b">>,
      o |-> <<"o", ":", "a">>, g |-> <<"g", ":", "a">>,
      integer |-> XSD_INTEGER, string |-> XSD_STRING ]

TermSubjects == { Proxy_Iri(Iri_new_unchecked(TermIris.s)), Proxy_BlankNode(<<"b", "1">>) }

TermPredicates == { Iri_new_unchecked(TermIris.p), Iri_new_unchecked(TermIris.q) }

TermLiterals ==
    { Literal_Typed(lex, Iri_new_unchecked(dt)) :
          lex \in {<<"4", "2">>, <<"c", "h", "a", "t">>}, dt \in {TermIris.integer, TermIris.string} }
    \cup
    { Literal_LanguageString(lex, LangTag_new_unchecked(tag), dir) :
          lex \in {<<"4", "2">>, <<"c", "h", "a", "t">>},
          tag \in {<<"e", "n">>, <<"f", "r">>},
          dir \in {None} \cup { Some(d) : d \in BaseDir } }

TermObjects ==
    { Proxy_Iri(Iri_new_unchecked(TermIris.o)), Proxy_BlankNode(<<"b", "2">>) }
    \cup { ObjectProxy_Literal(l) : l \in TermLiterals }

TermGraphNames ==
    { None, Some(Proxy_Iri(Iri_new_unchecked(TermIris.g))), Some(Proxy_BlankNode(<<"b", "3">>)) }

InitTerm ==
    /\ triple \in { Some(TripleOf(s, p, o)) : s \in TermSubjects, p \in TermPredicates, o \in TermObjects }
    /\ quad = None /\ lit = None /\ txt = << >> /\ ntok = 0
    /\ iri = None /\ tagA = None /\ tagB = None /\ ext = None
    /\ op = "init" /\ ret = None

\* the triple becomes the triple term in object position of a new triple
NestTriple(s, p) ==
    /\ op = "init" /\ quad = None
    /\ ntok < MaxDepth
    /\ triple' = Some(TripleOf(s, p, ObjectProxy_Triple(triple.val)))
    /\ ntok' = ntok + 1
    /\ UNCHANGED <<txt, iri, tagA, tagB, lit, quad, ext, op, ret>>

\* the triple is put in a graph: the default graph (None) or a named one
MakeQuad(g) ==
    /\ op = "init" /\ quad = None
    /\ quad' = Some(QuadOf(triple.val.s, triple.val.p, triple.val.o, g))
    /\ UNCHANGED <<txt, ntok, iri, tagA, tagB, lit, triple, ext, op, ret>>

\* one query; name is the method, result its value
TermReturn(name, result) ==
    /\ op = "init"
    /\ op' = name
    /\ ret' = result
    /\ UNCHANGED <<txt, ntok, iri, tagA, tagB, triple, quad, ext>>

TermTripleGround ==
    /\ quad = None
    /\ TermReturn("Triple::ground", Triple_ground(triple.val))
    /\ UNCHANGED lit

TermSubjectGround ==
    /\ quad = None
    /\ TermReturn("Subject::ground", Subject_ground(triple.val.s))
    /\ UNCHANGED lit

TermObjectGround ==
    /\ quad = None
    /\ TermReturn("Object::ground", Object_ground(triple.val.o))
    /\ UNCHANGED lit

TermDatatypeIri ==
    /\ quad = None
    /\ Object_object_kind(triple.val.o) = "Literal"
    /\ lit' = Some(triple.val.o.literal)
    /\ TermReturn("Literal::datatype_iri", Literal_datatype_iri(triple.val.o.literal))

TermQuadGround ==
    /\ quad.some
    /\ TermReturn("Quad::ground", Quad_ground(quad.val))
    /\ UNCHANGED lit

TermGraphNameGround ==
    /\ quad.some /\ quad.val.g.some
    /\ TermReturn("GraphName::ground", GraphName_ground(quad.val.g.val))
    /\ UNCHANGED lit

\* one derived operation is called on the subject, the object or the graph name
TermRoleCall(role, method) ==
    /\ method \in RoleMethods(role)
    /\ IF role = "GraphName" THEN quad.some /\ quad.val.g.some ELSE quad = None
    /\ LET self == CASE role = "Subject" -> triple.val.s
                     [] role = "Object" -> triple.val.o
                     [] role = "GraphName" -> quad.val.g.val
       IN  TermReturn("role_call", [ role |-> role, method |-> method, self |-> self,
                                     result |-> Role_call(role, method, self) ])
    /\ UNCHANGED lit

NextTerm ==
    \/ \E s \in TermSubjects, p \in TermPredicates : NestTriple(s, p)
    \/ \E g \in TermGraphNames : MakeQuad(g)
    \/ TermTripleGround
    \/ TermSubjectGround
    \/ TermObjectGround
    \/ TermDatatypeIri
    \/ TermQuadGround
    \/ TermGraphNameGround
    \/ \E role \in {"Subject", "Object", "GraphName"}, method \in RoleMethods("Object") :
           TermRoleCall(role, method)

SpecTerm == InitTerm /\ [][NextTerm]_vars

\* C6: datatype_iri is the datatype of a Typed literal, rdf:langString for a
\* LanguageString without base direction and rdf:dirLangString for one with a
\* base direction, whatever the lexical form and the tag.
C6_DatatypeIri ==
    op = "Literal::datatype_iri" =>
        /\ lit.val.kind = "Typed" => ret.text = lit.val.iri.text
        /\ lit.val.kind = "LanguageString" /\ lit.val.base_dir = None
               => ret.text = 
                   <<"h", "t", "t", "p", ":", "/", "/", "w", "w", "w", ".", "w", "3", ".", "o",
                      "r", "g", "/", "1", "9", "9", "9", "/", "0", "2", "/", "2", "2", "-", "r", "d",
                      "f", "-", "s", "y", "n", "t", "a", "x", "-", "n", "s", "#", "l", "a", "n", "g",
                      "S", "t", "r", "i", "n", "g">>
        /\ lit.val.kind = "LanguageString" /\ lit.val.base_dir \in {Some("Ltr"), Some("Rtl")}
               => ret.text = 
                   <<"h", "t", "t", "p", ":", "/", "/", "w", "w", "w", ".", "w", "3", ".", "o",
                      "r", "g", "/", "1", "9", "9", "9", "/", "0", "2", "/", "2", "2", "-", "r", "d",
                      "f", "-", "s", "y", "n", "t", "a", "x", "-", "n", "s", "#", "d", "i", "r", "L",
                      "a", "n", "g", "S", "t", "r", "i", "n", "g">>

\* C6 witness: the datatype of a right-to-left language string was asked for.
C6_DirLangStringSeen ==
    /\ op = "Literal::datatype_iri" /\ lit.val.kind = "LanguageString"
    /\ lit.val.base_dir = Some("Rtl") /\ ret = Iri_new_unchecked(RDF_DIR_LANG_STRING)

\* C7: Triple::ground is subject().ground() and object().ground(), and is the same
\* whatever the predicate.
C7_TripleGround ==
    op = "Triple::ground" =>
        /\ ret = (Subject_ground(triple.val.s) /\ Object_ground(triple.val.o))
        /\ \A p \in TermPredicates : Triple_ground([triple.val EXCEPT !.p = p]) = ret

\* C7 witness: a triple with a ground subject and an object that is not ground was
\* found not ground.
C7_ObjectDecides ==
    /\ op = "Triple::ground" /\ ret = FALSE
    /\ Subject_ground(triple.val.s) /\ ~Object_ground(triple.val.o)

\* the blank nodes that occur as subject or object of t, at any depth of triple
\* terms in object position
RECURSIVE BlankNodesOf(_)
BlankNodesOf(t) ==
    (IF t.s.kind = "BlankNode" THEN {t.s.id} ELSE {})
    \cup (CASE t.o.kind = "BlankNode" -> {t.o.id}
            [] t.o.kind = "Triple" -> BlankNodesOf(t.o.triple)
            [] OTHER -> {})

\* C8: an IRI or a literal is ground, a blank node is not, a triple term is ground
\* iff its triple is; so a triple is ground iff no blank node occurs in it as
\* subject or object at any depth.
C8_GroundIsNoBlankNode ==
    /\ op = "Subject::ground" => (ret <=> triple.val.s.kind = "Iri")
    /\ op = "Object::ground" =>
           (ret <=> \/ triple.val.o.kind \in {"Iri", "Literal"}
                    \/ triple.val.o.kind = "Triple" /\ BlankNodesOf(triple.val.o.triple) = {})
    /\ op = "Triple::ground" => (ret <=> BlankNodesOf(triple.val) = {})

\* C8 witness: a triple whose only blank node is inside a triple term of a triple
\* term was found not ground.
C8_DeepBlankNode ==
    /\ op = "Triple::ground" /\ ret = FALSE
    /\ triple.val.s.kind = "Iri" /\ triple.val.o.kind = "Triple"
    /\ triple.val.o.triple.s.kind = "Iri" /\ triple.val.o.triple.o.kind = "Triple"
    /\ BlankNodesOf(triple.val.o.triple.o.triple) # {}

\* C9: Quad::ground holds iff subject and object are ground and the graph name
\* is absent or ground; in the default graph it is the groundness of the triple,
\* and with a blank-node graph name it is false.
C9_QuadGround ==
    op = "Quad::ground" =>
        /\ ret <=> /\ BlankNodesOf(triple.val) = {}
                   /\ quad.val.g.some => quad.val.g.val.kind = "Iri"
        /\ quad.val.g = None => (ret <=> Triple_ground(triple.val))
        /\ quad.val.g.some /\ quad.val.g.val.kind = "BlankNode" => ret = FALSE

\* C9 witness: a quad with ground subject and object and a blank-node graph name
\* was found not ground.
C9_BlankGraphName ==
    /\ op = "Quad::ground" /\ ret = FALSE
    /\ Triple_ground(triple.val) /\ quad.val.g.some /\ quad.val.g.val.kind = "BlankNode"

\* what the decomposition of self (as_subject_proxy, as_object_proxy,
\* as_graph_name_proxy) says the operation named method returns
ByClassify(method, proxy) ==
    CASE method = "kind" -> proxy.kind
      [] method = "is_iri" -> proxy.kind = "Iri"
      [] method = "is_blank_node" -> proxy.kind = "BlankNode"
      [] method = "is_literal" -> proxy.kind = "Literal"
      [] method = "is_triple" -> proxy.kind = "Triple"
      [] method = "as_iri" -> IF proxy.kind = "Iri" THEN Some(proxy.iri) ELSE None
      [] method = "as_blank_node" -> IF proxy.kind = "BlankNode" THEN Some(proxy.id) ELSE None
      [] method = "as_literal" -> IF proxy.kind = "Literal" THEN Some(proxy.literal) ELSE None
      [] method = "as_triple" -> IF proxy.kind = "Triple" THEN Some(proxy.triple) ELSE None

\* exactly one of the is_* operations the role has is true of self
ExactlyOneIs(role, self) ==
    Cardinality({ m \in {"is_iri", "is_blank_node", "is_literal", "is_triple"} :
                      /\ m \in RoleMethods(role)
                      /\ Role_call(role, m, self).defined
                      /\ Role_call(role, m, self).value }) = 1

\* C14 as stated: every role, Subject included, has kind, is_* and as_*, and each
\* agrees with the decomposition.
C14_EveryRoleDerives ==
    op = "role_call" =>
        /\ ret.result.defined
        /\ ret.result.value = ByClassify(ret.method, ret.self)
        /\ ExactlyOneIs(ret.role, ret.self)

\* C14: kind of a Subject, an Object or a GraphName names the variant of its
\* decomposition; Object and GraphName have is_* and as_* for their variants,
\* each is_* is true exactly of its variant (one and only one is true), and
\* each as_* returns Some of the proxy's payload for its variant and None
\* otherwise. Subject has kind (and ground) only.
C14_DerivedAgree ==
    op = "role_call" =>
        /\ ret.result.defined <=> (ret.role = "Subject" => ret.method = "kind")
        /\ ret.result.defined => ret.result.value = ByClassify(ret.method, ret.self)
        /\ ret.role # "Subject" => ExactlyOneIs(ret.role, ret.self)

\* as_triple was called on an object that is a triple term, and as_literal on it is None
C14_AsTripleOfTripleTerm ==
    /\ op = "role_call" /\ ret.role = "Object" /\ ret.method = "as_triple"
    /\ ret.self.kind = "Triple" /\ ret.result.value = Some(triple.val.o.triple)
    /\ Role_call("Object", "as_literal", ret.self).value = None

-----------------------------------------------------------------------------
(* statement/src/impl_oxrdf.rs: the traits implemented for oxrdf, and the  *)
(* conversions back. A value of oxrdf is written as its constructors and   *)
(* accessors show it: a named node by its IRI, a blank node by its         *)
(* identifier, a literal by what destruct() returns.                       *)

\* panic!()
Panic == [kind |-> "panic"]

Panics(v) == v.kind = "panic"

\* Result::Ok, Result::Err
Ok(v) == [ok |-> TRUE, val |-> v]

Err(e) == [ok |-> FALSE, err |-> e]

\* ox::NamedNode::new_unchecked
ox_NamedNode(iri_text) == [kind |-> "NamedNode", iri |-> iri_text]

\* ox::BlankNode with the identifier id (as_str)
ox_BlankNode(id) == [kind |-> "BlankNode", id |-> id]

\* the digits of n in the given base, lower case
RECURSIVE Digits(_, _)
Digits(n, base) ==
    LET r == n % base
        d == AsciiChar(IF r < 10 THEN 48 + r ELSE 87 + r)
    IN  IF n < base THEN <<d>> ELSE Append(Digits(n \div base, base), d)

\* format!("{:x}", n)
LowerHex(n) == Digits(n, 16)

\* format!("{}", n)
Decimal(n) == Digits(n, 10)

\* ox::BlankNode::new_from_unique_id: the node whose as_str() is the number in
\* lower-case hexadecimal; BlankNode::new of that text is the same node
\* (test_round_trip::subject_bnode, object_bnode)
ox_BlankNode_new_from_unique_id(n) == ox_BlankNode(LowerHex(n))

\* ox::Literal, as destruct() shows it: (value, datatype, language)
ox_Literal(value, datatype, lang) ==
    [kind |-> "Literal", value |-> value, datatype |-> datatype, language |-> lang]

\* ox::Literal::new_typed_literal: a literal typed xsd:string is a simple literal
ox_Literal_new_typed_literal(value, datatype) ==
    IF datatype = XSD_STRING THEN ox_Literal(value, None, None)
    ELSE ox_Literal(value, Some(datatype), None)

\* ox::Literal::new_language_tagged_literal_unchecked
ox_Literal_new_language_tagged_literal_unchecked(value, lang) ==
    ox_Literal(value, None, Some(lang))

\* ox::Triple::new; as a term, ox::Term::Triple and ox::Subject::Triple
ox_Triple(s, p, o) == [kind |-> "Triple", s |-> s, p |-> p, o |-> o]

\* ox::GraphName::DefaultGraph
ox_DefaultGraph == [kind |-> "DefaultGraph"]

\* ox::Quad::new
ox_Quad(s, p, o, g) == [kind |-> "Quad", s |-> s, p |-> p, o |-> o, g |-> g]

\* The blank node labels that BlankNode::new and BlankIdBuf::new accept, after
\* "_:": (PN_CHARS_U | [0-9]) ((PN_CHARS | '.')* PN_CHARS)?
PN_CHARS_U ==
    { R("A", "Z"), R("a", "z"), One("_"), One(":"), <<192, 214>>, <<216, 246>>, <<248, 767>>,
      <<880, 893>>, <<895, 8191>>, <<8204, 8205>>, <<8304, 8591>>, <<11264, 12271>>,
      <<12289, 55295>>, <<63744, 64975>>, <<65008, 65533>>, <<65536, 983039>> }

PN_CHARS == PN_CHARS_U \cup { One("-"), R("0", "9"), <<183, 183>>, <<768, 879>>, <<8255, 8256>> }

BLANK_NODE_LABEL ==
    [ flags        |-> [i |-> FALSE, u |-> TRUE],
      anchor_start |-> TRUE,
      anchor_end   |-> TRUE,
      re           |-> Cat(<< Cls(PN_CHARS_U \cup {R("0", "9")}),
                              Opt(Cat(<<Star(Cls(PN_CHARS \cup {One(".")})), Cls(PN_CHARS)>>)) >>) ]

\* The hashes are 64-bit numbers; the model keeps HashBits bits of them.
HashBits == 12

\* <str as Hash>::hash writes the bytes of the text, then 0xff
RECURSIVE Hasher_bytes(_)
Hasher_bytes(state) ==
    IF state = << >> THEN << >>
    ELSE CodePoints(Head(state)) \o <<255>> \o Hasher_bytes(Tail(state))

RECURSIVE Checksum(_, _, _)
Checksum(bytes, i, h) ==
    IF i > Len(bytes) THEN h ELSE Checksum(bytes, i + 1, (h * 31 + bytes[i]) % 2^HashBits)

\* Hasher::finish of the SipHasher13 made with the keys k0, k1. The hash of
\* the standard library is stood for by a checksum of the keys and of the
\* bytes written: like it, a function of the keys and the bytes alone.
SipHasher13_finish(k0, k1, state) ==
    Checksum(Hasher_bytes(state), 1, (k0 * 7 + k1 * 13) % 2^HashBits)

\* the keys drawn for the process when it starts (RandomState); ext holds them
\* for the specifications that start processes
RandomState_keys == IF ext.some /\ "keys" \in DOMAIN ext.val THEN ext.val.keys ELSE <<0, 0>>

\* a hasher keyed by the process, as RandomState::new().build_hasher() is
DefaultHasher_of_random_state(s) ==
    SipHasher13_finish(RandomState_keys[1], RandomState_keys[2], str_hash(s, Hasher_new))

\* DefaultHasher::new() is SipHasher13::new_with_keys(0, 0);
\* bnid.hash(&mut s); s.finish()
DefaultHasher_of(s) == SipHasher13_finish(0, 0, str_hash(s, Hasher_new))

\* safe_bnode
ox_safe_bnode(bnid) ==
    IF is_match(BLANK_NODE_LABEL, bnid) THEN ox_BlankNode(bnid)
    ELSE ox_BlankNode_new_from_unique_id(DefaultHasher_of(bnid))

\* Predicate for ox::NamedNode: as_iri
ox_NamedNode_as_iri(self) == Iri_new_unchecked(self.iri)

\* From<Iri> for ox::NamedNode
ox_NamedNode_from(value) == ox_NamedNode(Iri_unwrap(value))

\* Subject for ox::Subject: as_subject_proxy
ox_Subject_as_subject_proxy(self) ==
    CASE self.kind = "NamedNode" -> Proxy_Iri(ox_NamedNode_as_iri(self))
      [] self.kind = "BlankNode" -> Proxy_BlankNode(self.id)
      [] self.kind = "Triple" -> Panic

\* From<SubjectProxy> for ox::Subject
ox_Subject_from(value) ==
    CASE value.kind = "Iri" -> ox_NamedNode_from(value.iri)
      [] value.kind = "BlankNode" -> ox_safe_bnode(value.id)

\* GraphName for ox::Subject: as_graph_name_proxy
ox_GraphName_as_graph_name_proxy(self) ==
    CASE self.kind = "NamedNode" -> Proxy_Iri(ox_NamedNode_as_iri(self))
      [] self.kind = "BlankNode" -> Proxy_BlankNode(self.id)
      [] self.kind = "Triple" -> Panic

\* From<GraphNameProxy> for ox::GraphName
ox_GraphName_from(value) ==
    CASE value.kind = "Iri" -> ox_NamedNode_from(value.iri)
      [] value.kind = "BlankNode" -> ox_safe_bnode(value.id)

\* Object for ox::Term: as_object_proxy
ox_Term_as_object_proxy(self) ==
    CASE self.kind = "NamedNode" -> Proxy_Iri(ox_NamedNode_as_iri(self))
      [] self.kind = "BlankNode" -> Proxy_BlankNode(self.id)
      [] self.kind = "Literal" ->
             ObjectProxy_Literal(
                 CASE self.datatype = None /\ self.language = None ->
                          Literal_Typed(self.value, Iri_new_unchecked(XSD_STRING))
                   [] self.language.some ->
                          Literal_LanguageString(self.value,
                                                 LangTag_new_unchecked(self.language.val), None)
                   [] self.datatype.some /\ ~self.language.some ->
                          Literal_Typed(self.value, Iri_new_unchecked(self.datatype.val)))
      [] self.kind = "Triple" -> ObjectProxy_Triple(self)

RECURSIVE ox_Term_from(_), ox_from_r2c2_triple(_)

\* From<ObjectProxy> for ox::Term without the panic: the base direction is dropped
ox_Term_from_dropping_direction(value) ==
    CASE value.kind = "Iri" -> ox_NamedNode_from(value.iri)
      [] value.kind = "BlankNode" -> ox_safe_bnode(value.id)
      [] value.kind = "Literal" /\ value.literal.kind = "Typed" ->
             ox_Literal_new_typed_literal(value.literal.lex, Iri_unwrap(value.literal.iri))
      [] value.kind = "Literal" /\ value.literal.kind = "LanguageString" ->
             ox_Literal_new_language_tagged_literal_unchecked(
                 value.literal.lex, LangTag_unwrap(value.literal.lang_tag))
      [] value.kind = "Triple" -> ox_from_r2c2_triple(value.triple)

\* From<ObjectProxy> for ox::Term
ox_Term_from(value) ==
    CASE value.kind = "Iri" -> ox_NamedNode_from(value.iri)
      [] value.kind = "BlankNode" -> ox_safe_bnode(value.id)
      [] value.kind = "Literal" /\ value.literal.kind = "Typed" ->
             ox_Literal_new_typed_literal(value.literal.lex, Iri_unwrap(value.literal.iri))
      [] value.kind = "Literal" /\ value.literal.kind = "LanguageString" ->
             IF value.literal.base_dir.some THEN Panic
             ELSE ox_Literal_new_language_tagged_literal_unchecked(
                      value.literal.lex, LangTag_unwrap(value.literal.lang_tag))
      [] value.kind = "Triple" -> ox_from_r2c2_triple(value.triple)

\* from_r2c2_triple, of an ox::Triple
ox_from_r2c2_triple(t) ==
    LET s == ox_Subject_as_subject_proxy(t.s)
        p == ox_NamedNode_as_iri(t.p)
        o == IF Panics(s) THEN Panic ELSE ox_Term_from(ox_Term_as_object_proxy(t.o))
    IN  IF Panics(s) \/ Panics(o) THEN Panic
        ELSE ox_Triple(ox_Subject_from(s), ox_NamedNode_from(p), o)

\* GraphName for ox::NamedOrBlankNodeRef: as_graph_name_proxy
ox_NamedOrBlankNodeRef_as_graph_name_proxy(self) ==
    CASE self.kind = "NamedNode" -> Proxy_Iri(Iri_new_unchecked(self.iri))
      [] self.kind = "BlankNode" -> Proxy_BlankNode(self.id)

\* Quad for ox::Quad: graph_name
ox_Quad_graph_name(self) ==
    CASE self.g.kind \in {"NamedNode", "BlankNode"} -> Some(self.g)
      [] self.g.kind = "DefaultGraph" -> None

\* from_r2c2_quad, of an ox::Quad
ox_from_r2c2_quad(q) ==
    LET s == ox_Subject_as_subject_proxy(q.s)
        p == ox_NamedNode_as_iri(q.p)
        o == IF Panics(s) THEN Panic ELSE ox_Term_from(ox_Term_as_object_proxy(q.o))
        g == IF ox_Quad_graph_name(q) = None THEN ox_DefaultGraph
             ELSE ox_GraphName_from(
                      ox_NamedOrBlankNodeRef_as_graph_name_proxy(ox_Quad_graph_name(q).val))
    IN  IF Panics(s) \/ Panics(o) THEN Panic
        ELSE ox_Quad(ox_Subject_from(s), ox_NamedNode_from(p), o, g)

\* The reference forms (ox::SubjectRef, ox::TermRef, ox::TripleRef, ...) are
\* written as the records of the values they borrow: as_ref() changes no field.

\* Predicate for ox::NamedNodeRef: as_iri
ox_NamedNodeRef_as_iri(self) == Iri_new_unchecked(self.iri)

\* Subject for ox::SubjectRef: as_subject_proxy
ox_SubjectRef_as_subject_proxy(self) ==
    CASE self.kind = "NamedNode" -> Proxy_Iri(ox_NamedNodeRef_as_iri(self))
      [] self.kind = "BlankNode" -> Proxy_BlankNode(self.id)
      [] self.kind = "Triple" -> Panic

\* Object for ox::TermRef: as_object_proxy
ox_TermRef_as_object_proxy(self) ==
    CASE self.kind = "NamedNode" -> Proxy_Iri(ox_NamedNodeRef_as_iri(self))
      [] self.kind = "BlankNode" -> Proxy_BlankNode(self.id)
      [] self.kind = "Literal" ->
             ObjectProxy_Literal(
                 CASE self.datatype = None /\ self.language = None ->
                          Literal_Typed(self.value, Iri_new_unchecked(XSD_STRING))
                   [] self.language.some ->
                          Literal_LanguageString(self.value,
                                                 LangTag_new_unchecked(self.language.val), None)
                   [] self.datatype.some /\ ~self.language.some ->
                          Literal_Typed(self.value, Iri_new_unchecked(self.datatype.val)))
      [] self.kind = "Triple" -> ObjectProxy_Triple(self)

\* Quad for ox::QuadRef: graph_name
ox_QuadRef_graph_name(self) ==
    CASE self.g.kind \in {"NamedNode", "BlankNode"} -> Some(self.g)
      [] self.g.kind = "DefaultGraph" -> None

\* from_r2c2_triple, of an ox::TripleRef
ox_from_r2c2_triple_ref(t) ==
    LET s == ox_SubjectRef_as_subject_proxy(t.s)
        p == ox_NamedNodeRef_as_iri(t.p)
        o == IF Panics(s) THEN Panic ELSE ox_Term_from(ox_TermRef_as_object_proxy(t.o))
    IN  IF Panics(s) \/ Panics(o) THEN Panic
        ELSE ox_Triple(ox_Subject_from(s), ox_NamedNode_from(p), o)

\* from_r2c2_quad, of an ox::QuadRef
ox_from_r2c2_quad_ref(q) ==
    LET s == ox_SubjectRef_as_subject_proxy(q.s)
        p == ox_NamedNodeRef_as_iri(q.p)
        o == IF Panics(s) THEN Panic ELSE ox_Term_from(ox_TermRef_as_object_proxy(q.o))
        g == IF ox_QuadRef_graph_name(q) = None THEN ox_DefaultGraph
             ELSE ox_GraphName_from(
                      ox_NamedOrBlankNodeRef_as_graph_name_proxy(ox_QuadRef_graph_name(q).val))
    IN  IF Panics(s) \/ Panics(o) THEN Panic
        ELSE ox_Quad(ox_Subject_from(s), ox_NamedNode_from(p), o, g)

-----------------------------------------------------------------------------
(* statement/src/impl_rdf_types.rs: the traits implemented for rdf_types,  *)
(* and the conversions back. A blank node identifier of rdf_types holds    *)
(* its text with the leading "_:".                                         *)

\* rt::IriBuf::new_unchecked: the IRI with text s (as_str)
rt_IriBuf(s) == [as_str |-> s]

\* rt::Id::Iri(IriBuf)
rt_Iri(iri_buf) == [kind |-> "Iri", iri_buf |-> iri_buf]

\* rt::BlankIdBuf::new_unchecked: the identifier with text s
rt_BlankIdBuf(s) == [str |-> s]

\* rt::BlankIdBuf::from_u64: the identifier with text "_:" and the number in decimal
rt_BlankIdBuf_from_u64(n) == rt_BlankIdBuf(<<"_", ":">> \o Decimal(n))

\* rt::Id::Blank(BlankIdBuf)
rt_Blank(bid) == [kind |-> "Blank", id |-> bid]

\* rt::LiteralType::Any(IriBuf), rt::LiteralType::LangString(LangTagBuf)
rt_LiteralType_Any(iri_buf) == [kind |-> "Any", iri |-> iri_buf]

rt_LiteralType_LangString(tag_text) == [kind |-> "LangString", tag |-> tag_text]

\* rt::Literal::new
rt_Literal(value, type_) == [kind |-> "Literal", value |-> value, type_ |-> type_]

\* rt::Triple(s, p, o)
rt_Triple(s, p, o) == [kind |-> "Triple", s |-> s, p |-> p, o |-> o]

\* rt::Quad(s, p, o, g)
rt_Quad(s, p, o, g) == [kind |-> "Quad", s |-> s, p |-> p, o |-> o, g |-> g]

\* safe_bnode
rt_safe_bnode(bnid) ==
    LET s == <<"_", ":">> \o bnid
    IN  IF is_match(BLANK_NODE_LABEL, SubSeq(s, 3, Len(s))) THEN rt_BlankIdBuf(s)
        ELSE rt_BlankIdBuf_from_u64(DefaultHasher_of(s))

\* Predicate for rt::IriBuf: as_iri
rt_IriBuf_as_iri(self) == Iri_new_unchecked(self.as_str)

\* Predicate for &rt::Iri: as_iri
rt_Iri_as_iri(self) == Iri_new_unchecked(self.as_str)

\* From<Iri> for rt::IriBuf
rt_IriBuf_from(value) == rt_IriBuf(Iri_unwrap(value))

\* as_subject_proxy with the whole text of the identifier as the label
rt_Subject_as_subject_proxy_whole(self) ==
    CASE self.kind = "Blank" -> Proxy_BlankNode(self.id.str)
      [] self.kind = "Iri" -> Proxy_Iri(Iri_new_unchecked(self.iri_buf.as_str))

\* Subject for rt::Subject: as_subject_proxy
rt_Subject_as_subject_proxy(self) ==
    CASE self.kind = "Blank" -> Proxy_BlankNode(SubSeq(self.id.str, 3, Len(self.id.str)))
      [] self.kind = "Iri" -> Proxy_Iri(Iri_new_unchecked(self.iri_buf.as_str))

\* From<SubjectProxy> for rt::Subject
rt_Subject_from(value) ==
    CASE value.kind = "Iri" -> rt_Iri(rt_IriBuf_from(value.iri))
      [] value.kind = "BlankNode" -> rt_Blank(rt_safe_bnode(value.id))

\* GraphName for rt::GraphLabel: as_graph_name_proxy
rt_GraphLabel_as_graph_name_proxy(self) ==
    CASE self.kind = "Blank" -> Proxy_BlankNode(SubSeq(self.id.str, 3, Len(self.id.str)))
      [] self.kind = "Iri" -> Proxy_Iri(Iri_new_unchecked(self.iri_buf.as_str))

\* From<GraphNameProxy> for rt::GraphLabel
rt_GraphLabel_from(value) ==
    CASE value.kind = "Iri" -> rt_Iri(rt_IriBuf_from(value.iri))
      [] value.kind = "BlankNode" -> rt_Blank(rt_safe_bnode(value.id))

\* Object for rt::Object: as_object_proxy
rt_Object_as_object_proxy(self) ==
    CASE self.kind = "Blank" -> Proxy_BlankNode(SubSeq(self.id.str, 3, Len(self.id.str)))
      [] self.kind = "Iri" -> Proxy_Iri(Iri_new_unchecked(self.iri_buf.as_str))
      [] self.kind = "Literal" /\ self.type_.kind = "Any" ->
             ObjectProxy_Literal(Literal_Typed(self.value, Iri_new_unchecked(self.type_.iri.as_str)))
      [] self.kind = "Literal" /\ self.type_.kind = "LangString" ->
             ObjectProxy_Literal(Literal_LanguageString(
                 self.value, LangTag_new_unchecked(self.type_.tag), None))

\* TryFrom<ObjectProxy> for rt::Object that drops the base direction
rt_Object_try_from_undirected(value) ==
    CASE value.kind = "Iri" -> Ok(rt_Iri(rt_IriBuf_from(value.iri)))
      [] value.kind = "BlankNode" -> Ok(rt_Blank(rt_safe_bnode(value.id)))
      [] value.kind = "Literal" /\ value.literal.kind = "Typed" ->
             Ok(rt_Literal(value.literal.lex, rt_LiteralType_Any(rt_IriBuf(Iri_unwrap(value.literal.iri)))))
      [] value.kind = "Literal" /\ value.literal.kind = "LanguageString" ->
             Ok(rt_Literal(value.literal.lex,
                           rt_LiteralType_LangString(LangTag_unwrap(value.literal.lang_tag))))
      [] value.kind = "Triple" -> Err("triple-terms are not supported by the crate rdf_types")

\* TryFrom<ObjectProxy> for rt::Object
rt_Object_try_from(value) ==
    CASE value.kind = "Iri" -> Ok(rt_Iri(rt_IriBuf_from(value.iri)))
      [] value.kind = "BlankNode" -> Ok(rt_Blank(rt_safe_bnode(value.id)))
      [] value.kind = "Literal" /\ value.literal.kind = "Typed" ->
             Ok(rt_Literal(value.literal.lex, rt_LiteralType_Any(rt_IriBuf(Iri_unwrap(value.literal.iri)))))
      [] value.kind = "Literal" /\ value.literal.kind = "LanguageString" ->
             IF value.literal.base_dir = None
             THEN Ok(rt_Literal(value.literal.lex,
                                rt_LiteralType_LangString(LangTag_unwrap(value.literal.lang_tag))))
             ELSE Err("directional language strings are not supported by the crate rdf_types")
      [] value.kind = "Triple" -> Err("triple-terms are not supported by the crate rdf_types")

\* The reference forms (rt::LexicalSubjectRef, rt::LexicalObjectRef, ...) are
\* written as the records of the values they borrow.

\* Subject for rt::LexicalSubjectRef: as_subject_proxy
rt_LexicalSubjectRef_as_subject_proxy(self) ==
    CASE self.kind = "Blank" -> Proxy_BlankNode(SubSeq(self.id.str, 3, Len(self.id.str)))
      [] self.kind = "Iri" -> Proxy_Iri(Iri_new_unchecked(self.iri_buf.as_str))

\* Object for rt::LexicalObjectRef: as_object_proxy
rt_LexicalObjectRef_as_object_proxy(self) ==
    CASE self.kind = "Blank" -> Proxy_BlankNode(SubSeq(self.id.str, 3, Len(self.id.str)))
      [] self.kind = "Iri" -> Proxy_Iri(Iri_new_unchecked(self.iri_buf.as_str))
      [] self.kind = "Literal" /\ self.type_.kind = "Any" ->
             ObjectProxy_Literal(Literal_Typed(self.value, Iri_new_unchecked(self.type_.iri.as_str)))
      [] self.kind = "Literal" /\ self.type_.kind = "LangString" ->
             ObjectProxy_Literal(Literal_LanguageString(
                 self.value, LangTag_new_unchecked(self.type_.tag), None))

\* GraphName for rt::LexicalGraphLabelRef: as_graph_name_proxy
rt_LexicalGraphLabelRef_as_graph_name_proxy(self) ==
    CASE self.kind = "Blank" -> Proxy_BlankNode(SubSeq(self.id.str, 3, Len(self.id.str)))
      [] self.kind = "Iri" -> Proxy_Iri(Iri_new_unchecked(self.iri_buf.as_str))

\* try_from_r2c2_triple, of an rt::LexicalTriple or an rt::LexicalTripleRef:
\* subject() and object() of both are the reference forms
rt_try_from_r2c2_triple(t) ==
    LET o == rt_Object_try_from(rt_LexicalObjectRef_as_object_proxy(t.o))
    IN  IF ~o.ok THEN o
        ELSE Ok(rt_Triple(rt_Subject_from(rt_LexicalSubjectRef_as_subject_proxy(t.s)),
                          rt_IriBuf_from(rt_Iri_as_iri(t.p)),
                          o.val))

\* try_from_r2c2_quad, of an rt::LexicalQuad or an rt::LexicalQuadRef
rt_try_from_r2c2_quad(q) ==
    LET o == rt_Object_try_from(rt_LexicalObjectRef_as_object_proxy(q.o))
    IN  IF ~o.ok THEN o
        ELSE Ok(rt_Quad(rt_Subject_from(rt_LexicalSubjectRef_as_subject_proxy(q.s)),
                        rt_IriBuf_from(rt_Iri_as_iri(q.p)),
                        o.val,
                        IF q.g.some
                        THEN Some(rt_GraphLabel_from(
                                      rt_LexicalGraphLabelRef_as_graph_name_proxy(q.g.val)))
                        ELSE None))

-----------------------------------------------------------------------------
(* Round trips through the proxies. ext holds the value of oxrdf or of     *)
(* rdf_types under conversion: its library, the role it is used in and the *)
(* value itself. A term is decomposed with as_subject_proxy, as_iri,       *)
(* as_object_proxy or as_graph_name_proxy and recomposed with into() or    *)
(* try_into(); a triple or a quad goes through from_r2c2_triple,           *)
(* from_r2c2_quad, try_from_r2c2_triple or try_from_r2c2_quad. Each is     *)
(* done on the owned value or on its reference form.                       *)

AdapterIris ==
    [ alice |-> <<"h", "t", "t", "p", "s", ":", "/", "/", "e", "x", "a", "m", "p", "l", "e", ".",
                  "o", "r", "g", "/", "n", "s", "/", "a", "l", "i", "c", "e">>,
      p     |-> <<"h", "t", "t", "p", "s", ":", "/", "/", "e", "x", "a", "m", "p", "l", "e", ".",
                  "o", "r", "g", "/", "n", "s", "/", "p">>,
      g     |-> <<"h", "t", "t", "p", "s", ":", "/", "/", "e", "x", "a", "m", "p", "l", "e", ".",
                  "o", "r", "g", "/">> ]

\* ox::Literal::new_simple_literal
ox_Literal_new_simple_literal(value) == ox_Literal(value, None, None)

\* ox::Literal::new_language_tagged_literal: the tag is kept in lower case
ox_Literal_new_language_tagged_literal(value, lang) ==
    ox_Literal(value, None, Some(to_ascii_lowercase(lang)))

OxSubjects == { ox_NamedNode(AdapterIris.alice), ox_BlankNode(<<"a", "1", "f">>) }

OxPredicates == { ox_NamedNode(AdapterIris.alice), ox_NamedNode(AdapterIris.p) }

OxLiterals ==
    { ox_Literal_new_simple_literal(<<"U+26C4">>),
      ox_Literal_new_typed_literal(<<"4", "2">>, XSD_INTEGER),
      ox_Literal_new_typed_literal(<<"c", "h", "a", "t">>, XSD_STRING),
      ox_Literal_new_language_tagged_literal(<<"c", "h", "a", "t">>, <<"e", "n", "-", "L", "a",
                                               "t", "n", "-", "U", "K">>),
      ox_Literal_new_language_tagged_literal_unchecked(<<"c", "h", "a", "t">>, <<"E", "N">>) }

OxObjects == OxSubjects \cup OxLiterals

OxGraphNames == { ox_DefaultGraph, ox_NamedNode(AdapterIris.g), ox_BlankNode(<<"b", "1">>) }

RtSubjects ==
    { rt_Iri(rt_IriBuf(AdapterIris.alice)), rt_Blank(rt_BlankIdBuf(<<"_", ":", "b", "1">>)) }

RtPredicates == { rt_IriBuf(AdapterIris.alice), rt_IriBuf(AdapterIris.p) }

RtLiterals ==
    { rt_Literal(<<"U+26C4">>, rt_LiteralType_Any(rt_IriBuf(XSD_STRING))),
      rt_Literal(<<"4", "2">>, rt_LiteralType_Any(rt_IriBuf(XSD_INTEGER))),
      rt_Literal(<<"c", "h", "a", "t">>, rt_LiteralType_LangString(<<"e", "n", "-", "L", "a",
                   "t", "n", "-", "U", "K">>)) }

RtObjects == RtSubjects \cup RtLiterals

RtGraphNames == { None } \cup { Some(s) : s \in RtSubjects }

Adapted(lib, role, val) == [lib |-> lib, role |-> role, val |-> val]

InitAdapter ==
    /\ ext \in { Some(Adapted("oxrdf", "subject", v)) : v \in OxSubjects }
         \cup { Some(Adapted("oxrdf", "predicate", v)) : v \in OxPredicates }
         \cup { Some(Adapted("oxrdf", "object", v)) : v \in OxObjects }
         \cup { Some(Adapted("oxrdf", "graph_name", v)) : v \in OxSubjects }
         \cup { Some(Adapted("rdf_types", "subject", v)) : v \in RtSubjects }
         \cup { Some(Adapted("rdf_types", "predicate", v)) : v \in RtPredicates }
         \cup { Some(Adapted("rdf_types", "object", v)) : v \in RtObjects }
         \cup { Some(Adapted("rdf_types", "graph_name", v)) : v \in RtSubjects }
    /\ triple = None /\ quad = None /\ lit = None /\ txt = << >> /\ ntok = 0
    /\ iri = None /\ tagA = None /\ tagB = None
    /\ op = "init" /\ ret = None

\* x.as_subject_proxy(), x.as_iri(), x.as_object_proxy() or x.as_graph_name_proxy(),
\* whichever the role of x calls for, on x itself or on its reference form
Adapter_as_proxy(x, form) ==
    CASE x.lib = "oxrdf" /\ x.role = "subject" ->
             IF form = "owned" THEN ox_Subject_as_subject_proxy(x.val)
             ELSE ox_SubjectRef_as_subject_proxy(x.val)
      [] x.lib = "oxrdf" /\ x.role = "predicate" ->
             IF form = "owned" THEN ox_NamedNode_as_iri(x.val)
             ELSE ox_NamedNodeRef_as_iri(x.val)
      [] x.lib = "oxrdf" /\ x.role = "object" ->
             IF form = "owned" THEN ox_Term_as_object_proxy(x.val)
             ELSE ox_TermRef_as_object_proxy(x.val)
      [] x.lib = "oxrdf" /\ x.role = "graph_name" ->
             IF form = "owned" THEN ox_GraphName_as_graph_name_proxy(x.val)
             ELSE ox_NamedOrBlankNodeRef_as_graph_name_proxy(x.val)
      [] x.lib = "rdf_types" /\ x.role = "subject" ->
             IF form = "owned" THEN rt_Subject_as_subject_proxy(x.val)
             ELSE rt_LexicalSubjectRef_as_subject_proxy(x.val)
      [] x.lib = "rdf_types" /\ x.role = "predicate" ->
             IF form = "owned" THEN rt_IriBuf_as_iri(x.val)
             ELSE rt_Iri_as_iri(x.val)
      [] x.lib = "rdf_types" /\ x.role = "object" ->
             IF form = "owned" THEN rt_Object_as_object_proxy(x.val)
             ELSE rt_LexicalObjectRef_as_object_proxy(x.val)
      [] x.lib = "rdf_types" /\ x.role = "graph_name" ->
             IF form = "owned" THEN rt_GraphLabel_as_graph_name_proxy(x.val)
             ELSE rt_LexicalGraphLabelRef_as_graph_name_proxy(x.val)

\* proxy.into(), or proxy.try_into(), to the type x had
Adapter_into(x, proxy) ==
    CASE x.lib = "oxrdf" /\ x.role = "subject" -> ox_Subject_from(proxy)
      [] x.lib = "oxrdf" /\ x.role = "predicate" -> ox_NamedNode_from(proxy)
      [] x.lib = "oxrdf" /\ x.role = "object" -> ox_Term_from(proxy)
      [] x.lib = "oxrdf" /\ x.role = "graph_name" -> ox_GraphName_from(proxy)
      [] x.lib = "rdf_types" /\ x.role = "subject" -> rt_Subject_from(proxy)
      [] x.lib = "rdf_types" /\ x.role = "predicate" -> rt_IriBuf_from(proxy)
      [] x.lib = "rdf_types" /\ x.role = "object" -> rt_Object_try_from(proxy)
      [] x.lib = "rdf_types" /\ x.role = "graph_name" -> rt_GraphLabel_from(proxy)

\* from_r2c2_triple(x), from_r2c2_quad(x), try_from_r2c2_triple(x) or try_from_r2c2_quad(x)
Adapter_from_r2c2(x, form) ==
    CASE x.lib = "oxrdf" /\ x.role = "triple" ->
             IF form = "owned" THEN ox_from_r2c2_triple(x.val) ELSE ox_from_r2c2_triple_ref(x.val)
      [] x.lib = "oxrdf" /\ x.role = "quad" ->
             IF form = "owned" THEN ox_from_r2c2_quad(x.val) ELSE ox_from_r2c2_quad_ref(x.val)
      [] x.lib = "rdf_types" /\ x.role = "triple" -> rt_try_from_r2c2_triple(x.val)
      [] x.lib = "rdf_types" /\ x.role = "quad" -> rt_try_from_r2c2_quad(x.val)

Forms == {"owned", "ref"}

\* oxrdf: the object becomes the triple term in object position of a new triple
AdapterNest(s, p) ==
    /\ op = "init" /\ ext.val.lib = "oxrdf" /\ ext.val.role = "object"
    /\ ntok < MaxDepth
    /\ ext' = Some(Adapted("oxrdf", "object", ox_Triple(s, p, ext.val.val)))
    /\ ntok' = ntok + 1
    /\ UNCHANGED <<txt, iri, tagA, tagB, lit, triple, quad, op, ret>>

\* oxrdf with the feature rdf-star: a triple is used as a subject or as a graph name
AdapterTripleAsSubject(role) ==
    /\ op = "init" /\ ext.val.lib = "oxrdf" /\ ext.val.role = "object"
    /\ ext.val.val.kind = "Triple"
    /\ ext' = Some(Adapted("oxrdf", role, ext.val.val))
    /\ UNCHANGED <<txt, ntok, iri, tagA, tagB, lit, triple, quad, op, ret>>

\* the term becomes the subject or the object of a triple
AdapterMakeTriple(p, other) ==
    /\ op = "init" /\ ext.val.role \in {"subject", "object"}
    /\ LET x == ext.val
           Make(s, o) == IF x.lib = "oxrdf" THEN ox_Triple(s, ox_NamedNode(p.as_str), o)
                         ELSE rt_Triple(s, p, o)
       IN  /\ other \in IF x.lib = "oxrdf" THEN OxSubjects ELSE RtSubjects
           /\ ext' = Some(Adapted(x.lib, "triple",
                                  IF x.role = "subject" THEN Make(x.val, other)
                                  ELSE Make(other, x.val)))
    /\ UNCHANGED <<txt, ntok, iri, tagA, tagB, lit, triple, quad, op, ret>>

\* the triple is put in a graph
AdapterMakeQuad(g) ==
    /\ op = "init" /\ ext.val.role = "triple"
    /\ LET x == ext.val
       IN  /\ g \in IF x.lib = "oxrdf" THEN OxGraphNames ELSE RtGraphNames
           /\ ext' = Some(Adapted(x.lib, "quad",
                                  IF x.lib = "oxrdf"
                                  THEN ox_Quad(x.val.s, x.val.p, x.val.o, g)
                                  ELSE rt_Quad(x.val.s, x.val.p, x.val.o, g)))
    /\ UNCHANGED <<txt, ntok, iri, tagA, tagB, lit, triple, quad, op, ret>>

\* a term is decomposed; an ox::NamedOrBlankNodeRef cannot hold a triple
AdapterAsProxy(form) ==
    /\ op = "init" /\ ext.val.role \in {"subject", "predicate", "object", "graph_name"}
    /\ ~(form = "ref" /\ ext.val.role = "graph_name" /\ ext.val.val.kind = "Triple")
    /\ LET proxy == Adapter_as_proxy(ext.val, form)
       IN  IF ext.val.role # "predicate" /\ Panics(proxy)
           THEN op' = "panic" /\ ret' = None
           ELSE op' = "as_proxy" /\ ret' = Some([form |-> form, val |-> proxy])
    /\ UNCHANGED <<txt, ntok, iri, tagA, tagB, lit, triple, quad, ext>>

\* the proxy is recomposed
AdapterInto ==
    /\ op = "as_proxy"
    /\ LET value == Adapter_into(ext.val, ret.val.val)
       IN  IF ext.val.role = "object" /\ ext.val.lib = "oxrdf" /\ Panics(value)
           THEN op' = "panic" /\ ret' = None
           ELSE op' = "into" /\ ret' = Some([form |-> ret.val.form, val |-> value])
    /\ UNCHANGED <<txt, ntok, iri, tagA, tagB, lit, triple, quad, ext>>

\* a triple or a quad is decomposed and recomposed
AdapterFromR2c2(form) ==
    /\ op = "init" /\ ext.val.role \in {"triple", "quad"}
    /\ LET value == Adapter_from_r2c2(ext.val, form)
       IN  IF ext.val.lib = "oxrdf" /\ Panics(value)
           THEN op' = "panic" /\ ret' = None
           ELSE op' = "from_r2c2" /\ ret' = Some([form |-> form, val |-> value])
    /\ UNCHANGED <<txt, ntok, iri, tagA, tagB, lit, triple, quad, ext>>

NextAdapter ==
    \/ \E s \in OxSubjects, p \in OxPredicates : AdapterNest(s, p)
    \/ \E role \in {"subject", "graph_name"} : AdapterTripleAsSubject(role)
    \/ \E p \in RtPredicates, other \in OxSubjects \cup RtSubjects : AdapterMakeTriple(p, other)
    \/ \E g \in OxGraphNames \cup RtGraphNames : AdapterMakeQuad(g)
    \/ \E form \in Forms : AdapterAsProxy(form)
    \/ AdapterInto
    \/ \E form \in Forms : AdapterFromR2c2(form)

SpecAdapter == InitAdapter /\ [][NextAdapter]_vars

RECURSIVE TripleInSubject(_)

\* oxrdf with the feature rdf-star: v has a triple in subject position, at any depth
TripleInSubject(v) ==
    /\ v.kind \in {"Triple", "Quad"}
    /\ \/ v.s.kind = "Triple"
       \/ TripleInSubject(v.o)

\* the value RDF 1.2 has no place for: a triple as a subject or as a graph name
Unsupported(x) ==
    /\ x.lib = "oxrdf"
    /\ x.role # "predicate"
    /\ IF x.role \in {"subject", "graph_name"} THEN x.val.kind = "Triple"
       ELSE TripleInSubject(x.val)

\* C10: decomposing a term, a triple or a quad of oxrdf or of rdf_types to its
\* proxy and recomposing it gives a value equal to the original, on the owned
\* value and on its reference form alike (for rdf_types the fallible
\* conversions return Ok of it); the conversion panics only on a value with
\* a triple in subject or graph name position, which the data model does not have.
C10_DecomposeRecompose ==
    /\ op = "into" =>
           ret.val.val = IF ext.val.lib = "rdf_types" /\ ext.val.role = "object"
                         THEN Ok(ext.val.val) ELSE ext.val.val
    /\ op = "from_r2c2" =>
           ret.val.val = IF ext.val.lib = "rdf_types" THEN Ok(ext.val.val) ELSE ext.val.val
    /\ op = "panic" => Unsupported(ext.val)

\* a quad of oxrdf whose object is a triple term came back equal from its reference form
C10_QuadWithTripleTermBack ==
    /\ op = "from_r2c2" /\ ext.val.lib = "oxrdf" /\ ext.val.role = "quad"
    /\ ext.val.val.o.kind = "Triple" /\ ext.val.val.g.kind = "BlankNode"
    /\ ret.val.form = "ref" /\ ret.val.val = ext.val.val

-----------------------------------------------------------------------------
(* statement/src/_iri.rs, statement/src/_literal/_language_tag.rs: the     *)
(* statics IRI_REGEX and TAG_REGEX. Each is a std::sync::LazyLock<Regex>:  *)
(* a cell that holds the closure until a std::sync::Once has run it, and   *)
(* the Regex afterwards. Iri::new and LangTag::new dereference the static, *)
(* which forces it, and then call is_match. Threads take the steps of      *)
(* force one at a time, in any order.                                      *)

NumThreads == 2

Threads == 1..NumThreads

\* static IRI_REGEX, static TAG_REGEX
Statics == {"IRI_REGEX", "TAG_REGEX"}

\* LazyLock::new(|| Regex::new(..SRC).unwrap()): the cell holds the closure
LazyLock_new(src) == [once |-> "INCOMPLETE", data |-> [f |-> src], runs |-> 0]

\* the closure: Regex::new(src).unwrap(); build numbers the runs of the closure
Regex_new(src, build) == [regex |-> src, build |-> build]

\* Once::call_once enters the initialisation whenever no initialisation has completed
Once_enters_unless_complete(state) == state # "COMPLETE"

\* Once::call_once enters the initialisation: compare-and-swap INCOMPLETE -> RUNNING
Once_enters(state) == state = "INCOMPLETE"

\* the process: its two statics, and where each thread is
Lazy == ext.val

InitLazy ==
    /\ ext = Some([ lock  |-> [ IRI_REGEX |-> LazyLock_new("IRI_REGEX_SRC"),
                                TAG_REGEX |-> LazyLock_new("TAG_REGEX_SRC") ],
                    pc    |-> [t \in Threads |-> "idle"],
                    at    |-> [t \in Threads |-> "IRI_REGEX"],
                    local |-> [t \in Threads |-> None],
                    got   |-> [t \in Threads |-> None] ])
    /\ triple = None /\ quad = None /\ lit = None /\ txt = << >> /\ ntok = 0
    /\ iri = None /\ tagA = None /\ tagB = None
    /\ op = "init" /\ ret = None

\* one step of thread t: the fields of the process that change are given in upd
LazyStep(t, name, upd) ==
    /\ ext' = Some([ f \in DOMAIN Lazy |-> IF f \in DOMAIN upd THEN upd[f] ELSE Lazy[f] ])
    /\ op' = name
    /\ UNCHANGED <<txt, ntok, iri, tagA, tagB, lit, triple, quad, ret>>

\* thread t calls Iri::new (s = IRI_REGEX) or LangTag::new (s = TAG_REGEX)
LazyCall(t, s) ==
    /\ Lazy.pc[t] = "idle"
    /\ LazyStep(t, "new", [ pc  |-> [Lazy.pc EXCEPT ![t] = "force"],
                            at  |-> [Lazy.at EXCEPT ![t] = s],
                            got |-> [Lazy.got EXCEPT ![t] = None] ])

\* LazyLock::force, Once::call_once: the initialisation has completed
LazyOnceCompleted(t) ==
    /\ Lazy.pc[t] = "force"
    /\ Lazy.lock[Lazy.at[t]].once = "COMPLETE"
    /\ LazyStep(t, "Once::call_once", [ pc |-> [Lazy.pc EXCEPT ![t] = "deref"] ])

\* Once::call_once: this thread is the one that initialises
LazyOnceBegin(t) ==
    /\ Lazy.pc[t] = "force"
    /\ Once_enters(Lazy.lock[Lazy.at[t]].once)
    /\ LazyStep(t, "Once::call_once",
                [ pc   |-> [Lazy.pc EXCEPT ![t] = "closure"],
                  lock |-> [Lazy.lock EXCEPT ![Lazy.at[t]].once = "RUNNING"] ])

\* the closure runs: Regex::new(..).unwrap()
LazyClosure(t) ==
    /\ Lazy.pc[t] = "closure"
    /\ LET s == Lazy.at[t]
           n == Lazy.lock[s].runs + 1
       IN  LazyStep(t, "closure",
                    [ pc    |-> [Lazy.pc EXCEPT ![t] = "store"],
                      local |-> [Lazy.local EXCEPT ![t] = Some(Regex_new(Lazy.lock[s].data.f, n))],
                      lock  |-> [Lazy.lock EXCEPT ![s].runs = n] ])

\* the value the closure returned is written to the cell
LazyStore(t) ==
    /\ Lazy.pc[t] = "store"
    /\ LazyStep(t, "store",
                [ pc    |-> [Lazy.pc EXCEPT ![t] = "complete"],
                  local |-> [Lazy.local EXCEPT ![t] = None],
                  lock  |-> [Lazy.lock EXCEPT ![Lazy.at[t]].data = [value |-> Lazy.local[t].val]] ])

\* Once: RUNNING -> COMPLETE, the waiting threads go on
LazyOnceComplete(t) ==
    /\ Lazy.pc[t] = "complete"
    /\ LazyStep(t, "complete",
                [ pc   |-> [Lazy.pc EXCEPT ![t] = "deref"],
                  lock |-> [Lazy.lock EXCEPT ![Lazy.at[t]].once = "COMPLETE"] ])

\* Deref for LazyLock: the caller gets what the cell holds, and calls is_match on it
LazyDeref(t) ==
    /\ Lazy.pc[t] = "deref"
    /\ LazyStep(t, "deref", [ pc  |-> [Lazy.pc EXCEPT ![t] = "is_match"],
                              got |-> [Lazy.got EXCEPT ![t] = Some(Lazy.lock[Lazy.at[t]].data)] ])

\* Iri::new or LangTag::new returns
LazyReturn(t) ==
    /\ Lazy.pc[t] = "is_match"
    /\ LazyStep(t, "return", [ pc |-> [Lazy.pc EXCEPT ![t] = "idle"] ])

NextLazy ==
    \/ \E t \in Threads, s \in Statics : LazyCall(t, s)
    \/ \E t \in Threads : LazyOnceCompleted(t)
    \/ \E t \in Threads : LazyOnceBegin(t)
    \/ \E t \in Threads : LazyClosure(t)
    \/ \E t \in Threads : LazyStore(t)
    \/ \E t \in Threads : LazyOnceComplete(t)
    \/ \E t \in Threads : LazyDeref(t)
    \/ \E t \in Threads : LazyReturn(t)

SpecLazy == InitLazy /\ [][NextLazy]_vars

\* C12: whatever the interleaving of the threads calling Iri::new or
\* LangTag::new, the closure of each static runs at most once, and every caller
\* that dereferences the static gets the Regex that single run built from the
\* static's pattern: never the cell before the value is written, never another build.
C12_InitialisedOnce ==
    /\ \A s \in Statics : Lazy.lock[s].runs <= 1
    /\ \A t \in Threads :
           Lazy.got[t].some =>
               Lazy.got[t].val = [value |-> Regex_new(LazyLock_new(Lazy.at[t] \o "_SRC").data.f, 1)]

\* two threads forced IRI_REGEX while it was not initialised: one ran the closure, the
\* other waited, and both hold the Regex
C12_TwoCallersOneBuild ==
    /\ \A t \in {1, 2} : Lazy.at[t] = "IRI_REGEX" /\ Lazy.pc[t] = "is_match" /\ Lazy.got[t].some
    /\ Lazy.lock["IRI_REGEX"].runs = 1
    /\ Lazy.lock["TAG_REGEX"].once = "INCOMPLETE"

-----------------------------------------------------------------------------
(* statement/src/_subject.rs, _predicate.rs, _graph_name.rs, _object.rs,   *)
(* _triple.rs, _quad.rs: the traits with their provided methods, and the   *)
(* implementations for &T and Box<T>. An implementation T gives the        *)
(* required methods (base) and may override one provided method (over); a  *)
(* provided method that is not overridden runs the trait's default body,   *)
(* whose calls on self go to the methods of the type it runs for.          *)

\* a type implementing a trait: base is what its required methods return
Impl(base, over) == [base |-> base, over |-> over]

\* the value returned by an overriding method; over.value holds it under the name of its type
Overridden(over) == over.value[CHOOSE f \in DOMAIN over.value : TRUE]

\* the methods of each trait
TraitMethods(trait) ==
    CASE trait = "Subject" -> {"as_subject_proxy", "subject_kind", "ground"}
      [] trait = "Predicate" -> {"as_iri"}
      [] trait = "GraphName" -> {"as_graph_name_proxy", "graph_name_kind", "is_iri",
                                 "is_blank_node", "as_iri", "as_blank_node", "ground"}
      [] trait = "Object" -> {"as_object_proxy", "object_kind", "is_iri", "is_blank_node",
                              "is_literal", "is_triple", "as_iri", "as_blank_node",
                              "as_literal", "as_triple", "ground"}
      [] trait = "Triple" -> {"subject", "predicate", "object", "ground"}
      [] trait = "Quad" -> {"subject", "predicate", "object", "graph_name", "ground"}

\* the methods without a default body
RequiredMethods(trait) ==
    CASE trait = "Subject" -> {"as_subject_proxy"}
      [] trait = "Predicate" -> {"as_iri"}
      [] trait = "GraphName" -> {"as_graph_name_proxy"}
      [] trait = "Object" -> {"as_object_proxy"}
      [] trait = "Triple" -> {"subject", "predicate", "object"}
      [] trait = "Quad" -> {"subject", "predicate", "object", "graph_name"}

\* impl<T: ..> .. for &T: the methods written in the impl, each (*self).method()
ForwardedByRef(trait) ==
    CASE trait = "Subject" -> {"as_subject_proxy", "subject_kind", "ground"}
      [] trait = "Predicate" -> {"as_iri"}
      [] trait = "GraphName" -> {"as_graph_name_proxy", "graph_name_kind", "ground"}
      [] trait = "Object" -> {"as_object_proxy", "object_kind", "ground"}
      [] trait = "Triple" -> {"subject", "predicate", "object"}
      [] trait = "Quad" -> {"subject", "predicate", "object", "graph_name"}

\* impl<T: Triple> Triple for Box<T>, the only impl for Box: self.as_ref().method()
ForwardedByBox(trait) ==
    CASE trait = "Triple" -> {"subject", "predicate", "object"}
      [] OTHER -> {}

\* the traits Box<T> implements
BoxImplements(trait) == trait = "Triple"

RECURSIVE Trait_call(_, _, _, _), Trait_default(_, _, _, _)

\* self.method() for self of type T (w = "T"), &T (w = "&T") or Box<T> (w = "Box<T>")
Trait_call(w, trait, method, t) ==
    CASE w = "T" /\ method \in RequiredMethods(trait) ->
             IF trait \in {"Triple", "Quad"} THEN t.base[method] ELSE t.base
      [] w = "T" /\ method \notin RequiredMethods(trait) ->
             IF t.over.some /\ t.over.val.method = method THEN Overridden(t.over.val)
             ELSE Trait_default(w, trait, method, t)
      [] w = "&T" ->
             IF method \in ForwardedByRef(trait) THEN Trait_call("T", trait, method, t)
             ELSE Trait_default(w, trait, method, t)
      [] w = "Box<T>" ->
             IF method \in ForwardedByBox(trait) THEN Trait_call("T", trait, method, t)
             ELSE Trait_default(w, trait, method, t)

\* the default body of a provided method, run for self of type w
Trait_default(w, trait, method, t) ==
    LET self(m) == Trait_call(w, trait, m, t)
    IN  CASE trait = "Subject" /\ method = "subject_kind" -> self("as_subject_proxy").kind
          [] trait = "Subject" /\ method = "ground" ->
                 (CASE self("subject_kind") = "Iri" -> TRUE
                    [] self("subject_kind") = "BlankNode" -> FALSE)
          [] trait = "GraphName" /\ method = "graph_name_kind" -> self("as_graph_name_proxy").kind
          [] trait = "GraphName" /\ method = "is_iri" -> self("graph_name_kind") = "Iri"
          [] trait = "GraphName" /\ method = "is_blank_node" -> self("graph_name_kind") = "BlankNode"
          [] trait = "GraphName" /\ method = "as_iri" -> GraphName_as_iri(self("as_graph_name_proxy"))
          [] trait = "GraphName" /\ method = "as_blank_node" ->
                 GraphName_as_blank_node(self("as_graph_name_proxy"))
          [] trait = "GraphName" /\ method = "ground" ->
                 (CASE self("graph_name_kind") = "Iri" -> TRUE
                    [] self("graph_name_kind") = "BlankNode" -> FALSE)
          [] trait = "Object" /\ method = "object_kind" -> self("as_object_proxy").kind
          [] trait = "Object" /\ method = "is_iri" -> self("object_kind") = "Iri"
          [] trait = "Object" /\ method = "is_blank_node" -> self("object_kind") = "BlankNode"
          [] trait = "Object" /\ method = "is_literal" -> self("object_kind") = "Literal"
          [] trait = "Object" /\ method = "is_triple" -> self("object_kind") = "Triple"
          [] trait = "Object" /\ method = "as_iri" -> Object_as_iri(self("as_object_proxy"))
          [] trait = "Object" /\ method = "as_blank_node" ->
                 Object_as_blank_node(self("as_object_proxy"))
          [] trait = "Object" /\ method = "as_literal" -> Object_as_literal(self("as_object_proxy"))
          [] trait = "Object" /\ method = "as_triple" -> Object_as_triple(self("as_object_proxy"))
          [] trait = "Object" /\ method = "ground" ->
                 (CASE self("object_kind") \in {"Iri", "Literal"} -> TRUE
                    [] self("object_kind") = "BlankNode" -> FALSE
                    [] self("object_kind") = "Triple" ->
                           IF self("as_triple").some THEN Triple_ground(self("as_triple").val)
                           ELSE Panic)
          [] trait = "Triple" /\ method = "ground" ->
                 Subject_ground(self("subject")) /\ Object_ground(self("object"))
          [] trait = "Quad" /\ method = "ground" ->
                 /\ Subject_ground(self("subject"))
                 /\ Object_ground(self("object"))
                 /\ IF self("graph_name").some THEN GraphName_ground(self("graph_name").val)
                    ELSE TRUE

\* self.method() on the wrapper w holding t, where w implements the trait
Wrapper_call(w, trait, method, t) ==
    IF w = "Box<T>" /\ ~BoxImplements(trait) THEN NoMethod
    ELSE Returned(Trait_call(w, trait, method, t))

\* the values an overriding method can return, each under the name of its type
OverrideValues(trait, method) ==
    CASE method \in {"ground", "is_iri", "is_blank_node", "is_literal", "is_triple"} ->
             { [bool |-> v] : v \in BOOLEAN }
      [] method \in {"subject_kind", "graph_name_kind"} ->
             { [kind |-> v] : v \in {"Iri", "BlankNode"} }
      [] method = "object_kind" -> { [kind |-> v] : v \in {"Iri", "BlankNode", "Literal", "Triple"} }
      [] method = "as_iri" -> { [iri |-> v] : v \in {None, Some(Iri_new_unchecked(TermIris.o))} }
      [] method = "as_blank_node" -> { [blank_node |-> v] : v \in {None, Some(<<"b", "2">>)} }
      [] method = "as_literal" ->
             { [literal |-> v] :
                   v \in {None, Some(Literal_Typed(<<"4", "2">>, Iri_new_unchecked(TermIris.integer)))} }
      [] method = "as_triple" -> { [triple |-> None] }

WrapTriples ==
    { TripleOf(s, Iri_new_unchecked(TermIris.p), o) :
          s \in TermSubjects,
          o \in {Proxy_Iri(Iri_new_unchecked(TermIris.o)), Proxy_BlankNode(<<"b", "2">>)} }

\* what the required methods of the implementations return
WrapBases(trait) ==
    CASE trait = "Subject" -> TermSubjects
      [] trait = "Predicate" -> TermPredicates
      [] trait = "GraphName" -> { g.val : g \in TermGraphNames \ {None} }
      [] trait = "Object" ->
             { Proxy_Iri(Iri_new_unchecked(TermIris.o)), Proxy_BlankNode(<<"b", "2">>),
               ObjectProxy_Literal(Literal_Typed(<<"4", "2">>, Iri_new_unchecked(TermIris.integer))) }
             \cup { ObjectProxy_Triple(t) : t \in WrapTriples }
      [] trait = "Triple" ->
             { [subject |-> t.s, predicate |-> t.p, object |-> t.o] : t \in WrapTriples }
      [] trait = "Quad" ->
             { [subject |-> t.s, predicate |-> t.p, object |-> t.o, graph_name |-> g] :
                   t \in WrapTriples, g \in TermGraphNames }

Traits == {"Subject", "Predicate", "GraphName", "Object", "Triple", "Quad"}

\* the implementations of a trait: no override, or one provided method overridden
WrapImpls(trait) ==
    { Impl(b, None) : b \in WrapBases(trait) }
    \cup UNION { UNION { { Impl(b, Some([method |-> m, value |-> v])) : b \in WrapBases(trait) } :
                           v \in OverrideValues(trait, m) } :
                     m \in TraitMethods(trait) \ RequiredMethods(trait) }

InitWrap ==
    /\ ext \in UNION { { Some([trait |-> tr, t |-> t]) : t \in WrapImpls(tr) } : tr \in Traits }
    /\ triple = None /\ quad = None /\ lit = None /\ txt = << >> /\ ntok = 0
    /\ iri = None /\ tagA = None /\ tagB = None
    /\ op = "init" /\ ret = None

\* what a call of the method on T and on the wrapper w return
WrapResult(w, method) ==
    [ w |-> w, trait |-> ext.val.trait, method |-> method,
      onT |-> Returned(Trait_call("T", ext.val.trait, method, ext.val.t)),
      result |-> Wrapper_call(w, ext.val.trait, method, ext.val.t) ]

\* method called through a reference to the value
WrapRefCall(method) ==
    /\ op = "init"
    /\ method \in TraitMethods(ext.val.trait)
    /\ op' = "call"
    /\ ret' = WrapResult("&T", method)
    /\ UNCHANGED <<txt, ntok, iri, tagA, tagB, lit, triple, quad, ext>>

\* method called through a box holding the value
WrapBoxCall(method) ==
    /\ op = "init"
    /\ method \in TraitMethods(ext.val.trait)
    /\ op' = "call"
    /\ ret' = WrapResult("Box<T>", method)
    /\ UNCHANGED <<txt, ntok, iri, tagA, tagB, lit, triple, quad, ext>>

NextWrap ==
    \/ \E method \in TraitMethods("Object") \cup TraitMethods("Quad") \cup TraitMethods("GraphName")
                     \cup TraitMethods("Subject") : WrapRefCall(method)
    \/ \E method \in TraitMethods("Object") \cup TraitMethods("Quad") \cup TraitMethods("GraphName")
                     \cup TraitMethods("Subject") : WrapBoxCall(method)

SpecWrap == InitWrap /\ [][NextWrap]_vars

\* C15: every trait operation called on a reference or a box holding a value
\* of a type T implementing Subject, Object, GraphName, Predicate, Triple or
\* Quad returns what that operation returns when called on T, also when T
\* overrides a default method.
C15_WrappersForward == op = "call" => ret.result = ret.onT

-----------------------------------------------------------------------------
(* statement/src/impl_rdf_types.rs: conversion of the triples and quads of *)
(* SpecTerm, whose terms are SubjectProxy, Iri, ObjectProxy and            *)
(* GraphNameProxy values, into rdf_types.                                   *)

\* try_from_r2c2_triple of a triple of proxies: as_subject_proxy, as_iri and
\* as_object_proxy of a proxy return the proxy; ? returns the object's Err
rt_try_from_r2c2_triple_of_proxies(t) ==
    LET o == rt_Object_try_from(t.o)
    IN  IF ~o.ok THEN o
        ELSE Ok(rt_Triple(rt_Subject_from(t.s), rt_IriBuf_from(t.p), o.val))

\* try_from_r2c2_quad of a quad of proxies
rt_try_from_r2c2_quad_of_proxies(q) ==
    LET o == rt_Object_try_from(q.o)
    IN  IF ~o.ok THEN o
        ELSE Ok(rt_Quad(rt_Subject_from(q.s), rt_IriBuf_from(q.p), o.val,
                        IF q.g.some THEN Some(rt_GraphLabel_from(q.g.val)) ELSE None))

\* the object of the triple is converted
TryObject ==
    /\ quad = None
    /\ TermReturn("rt::Object::try_from",
                  [object |-> triple.val.o, result |-> rt_Object_try_from(triple.val.o)])
    /\ UNCHANGED lit

\* the triple is converted
TryTriple ==
    /\ quad = None
    /\ TermReturn("try_from_r2c2_triple",
                  [object |-> triple.val.o, result |-> rt_try_from_r2c2_triple_of_proxies(triple.val)])
    /\ UNCHANGED lit

\* the quad is converted
TryQuad ==
    /\ quad.some
    /\ TermReturn("try_from_r2c2_quad",
                  [object |-> quad.val.o, result |-> rt_try_from_r2c2_quad_of_proxies(quad.val)])
    /\ UNCHANGED lit

NextTry ==
    \/ \E s \in TermSubjects, p \in TermPredicates : NestTriple(s, p)
    \/ \E g \in TermGraphNames : MakeQuad(g)
    \/ TryObject
    \/ TryTriple
    \/ TryQuad

SpecTry == InitTerm /\ [][NextTry]_vars

\* the RDF 1.2 feature of an object that rdf_types has no form for, if any
UnsupportedFeature(o) ==
    CASE o.kind = "Triple" -> Some("triple-terms")
      [] o.kind = "Literal" /\ o.literal.kind = "LanguageString" /\ o.literal.base_dir.some ->
             Some("directional language strings")
      [] OTHER -> None

\* C16: converting an object, a triple or a quad into rdf_types returns an Err
\* naming the feature iff the object is a language string with a base
\* direction or a triple term, and Ok for every IRI, blank node, typed literal
\* and undirected language string; it never panics.
C16_ErrIffUnsupported ==
    op \in {"rt::Object::try_from", "try_from_r2c2_triple", "try_from_r2c2_quad"} =>
        LET feature == UnsupportedFeature(ret.object)
        IN  /\ DOMAIN ret.result = IF ret.result.ok THEN {"ok", "val"} ELSE {"ok", "err"}
            /\ ret.result.ok <=> ~feature.some
            /\ ~ret.result.ok =>
                   ret.result.err = feature.val \o " are not supported by the crate rdf_types"
            /\ ret.result.ok =>
                   /\ ret.object.kind \in {"Iri", "BlankNode", "Literal"}
                   /\ op = "rt::Object::try_from" => ret.result.val.kind \in {"Iri", "Blank", "Literal"}

\* a quad whose object is a directional language string is refused
C16_DirectionalQuadRefused ==
    /\ op = "try_from_r2c2_quad"
    /\ ret.object.kind = "Literal"
    /\ ret.object.literal.kind = "LanguageString"
    /\ ret.object.literal.base_dir.some
    /\ ret.result = Err("directional language strings are not supported by the crate rdf_types")

-----------------------------------------------------------------------------
(* safe_bnode of both adapters, over the runs of a process. ext holds the   *)
(* keys drawn when the process started, the number of the run and the       *)
(* conversion before the last one; ret holds the last conversion.           *)

MaxRuns == 2

\* the keys a process can draw when it starts
RunKeys == {<<1, 2>>, <<3, 5>>}

\* labels valid and not valid as blank node labels of the target
BnodeBaseLabels ==
    { <<"b", "1">>, <<"a">>, <<"a", " ", "b">>, << >>, <<"-", "x">>, <<"b", ".">> }

\* the labels converted: the base labels, and the texts of the identifiers
\* they are converted to
BnodeLabels ==
    BnodeBaseLabels
    \cup { ox_safe_bnode(l).id : l \in BnodeBaseLabels }
    \cup { LET s == rt_safe_bnode(l).str IN SubSeq(s, 3, Len(s)) : l \in BnodeBaseLabels }

InitBnode ==
    /\ ext \in { Some([keys |-> k, run |-> 1, prev |-> None]) : k \in RunKeys }
    /\ triple = None /\ quad = None /\ lit = None /\ txt = << >> /\ ntok = 0
    /\ iri = None /\ tagA = None /\ tagB = None
    /\ op = "init" /\ ret = None

\* impl_oxrdf.rs: safe_bnode(label)
BnodeOx(label) ==
    /\ ext' = Some([ext.val EXCEPT !.prev = ret])
    /\ ret' = Some([ lib |-> "oxrdf", label |-> label, run |-> ext.val.run,
                     id |-> ox_safe_bnode(label).id ])
    /\ op' = "safe_bnode"
    /\ UNCHANGED <<txt, ntok, iri, tagA, tagB, lit, triple, quad>>

\* impl_rdf_types.rs: safe_bnode(label)
BnodeRt(label) ==
    /\ ext' = Some([ext.val EXCEPT !.prev = ret])
    /\ ret' = Some([ lib |-> "rdf_types", label |-> label, run |-> ext.val.run,
                     id |-> rt_safe_bnode(label).str ])
    /\ op' = "safe_bnode"
    /\ UNCHANGED <<txt, ntok, iri, tagA, tagB, lit, triple, quad>>

\* the process ends and starts again, drawing keys
BnodeRestart(k) ==
    /\ ext.val.run < MaxRuns
    /\ ext' = Some([ext.val EXCEPT !.run = @ + 1, !.keys = k])
    /\ op' = "start"
    /\ UNCHANGED <<txt, ntok, iri, tagA, tagB, lit, triple, quad, ret>>

NextBnode ==
    \/ \E label \in BnodeLabels : BnodeOx(label)
    \/ \E label \in BnodeLabels : BnodeRt(label)
    \/ \E k \in RunKeys : BnodeRestart(k)

SpecBnode == InitBnode /\ [][NextBnode]_vars

\* the identifier of the target's blank node with that label
BnodeIdOf(lib, label) == IF lib = "oxrdf" THEN label ELSE <<"_", ":">> \o label

\* C17: safe_bnode maps a label valid in the target syntax to the blank node
\* with that label, and two conversions of one label, in the same run or in
\* different runs, give the same identifier.
C17_Deterministic ==
    ret.some =>
        /\ is_match(BLANK_NODE_LABEL, ret.val.label) => ret.val.id = BnodeIdOf(ret.val.lib, ret.val.label)
        /\ (ext.val.prev.some /\ ext.val.prev.val.lib = ret.val.lib
                /\ ext.val.prev.val.label = ret.val.label)
               => ext.val.prev.val.id = ret.val.id

\* a label that is not valid, converted in two runs to one substitute
C17_SubstituteAgainInNextRun ==
    /\ ret.some /\ ext.val.prev.some
    /\ ~is_match(BLANK_NODE_LABEL, ret.val.label)
    /\ ext.val.prev.val.lib = ret.val.lib
    /\ ext.val.prev.val.label = ret.val.label
    /\ ext.val.prev.val.run # ret.val.run
    /\ ext.val.prev.val.id = ret.val.id
    /\ ret.val.id # BnodeIdOf(ret.val.lib, ret.val.label)

\* C18: two distinct labels are converted to two distinct identifiers of the
\* target, whether the labels are valid in the target syntax or not.
C18_NoCollision ==
    (ret.some /\ ext.val.prev.some /\ ext.val.prev.val.lib = ret.val.lib
         /\ ext.val.prev.val.label # ret.val.label)
        => ext.val.prev.val.id # ret.val.id

-----------------------------------------------------------------------------
(* The Iri and LangTag values in existence. iri and tagA hold the values   *)
(* made by the constructors, lit a literal made of them, triple a triple    *)
(* made of them, ret the values the last operation returned; ext records    *)
(* whether new_unchecked or unchecked_map was called. Each value is made   *)
(* once.                                                                   *)

\* SubjectProxy as Subject: as_subject_proxy
SubjectProxy_as_subject_proxy(self) ==
    CASE self.kind = "Iri" -> Proxy_Iri(Iri_borrowed(self.iri))
      [] self.kind = "BlankNode" -> Proxy_BlankNode(self.id)

\* ObjectProxy as Object: as_object_proxy
ObjectProxy_as_object_proxy(self) ==
    CASE self.kind = "Iri" -> Proxy_Iri(Iri_borrowed(self.iri))
      [] self.kind = "BlankNode" -> Proxy_BlankNode(self.id)
      [] self.kind = "Literal" -> ObjectProxy_Literal(Literal_borrowed(self.literal))
      [] self.kind = "Triple" -> ObjectProxy_Triple(self.triple)

\* Iri as Predicate: as_iri
Iri_as_iri(self) == Iri_borrowed(self)

\* texts given to Iri::new: an IRI, a text with a port that is no number, a
\* text with a space
ValidIriTexts == { <<"h", "t", "t", "p", ":", "/", "/", "a", "/", "b">>, <<"h", "t", "t", "p", ":", "/", "/", "a", ":", "b">>, <<"a", " ", "b">> }

\* texts given to LangTag::new: a tag, a grandfathered tag, a number
ValidTagTexts == { <<"e", "n", "-", "G", "B">>, <<"i", "-", "k", "l", "i", "n", "g", "o", "n">>, <<"1", "2">> }

\* what unchecked_map is called with: a function appending a space
AppendSpace(t) == [ x \in {t} |-> x \o <<" ">> ]

\* the Iri and LangTag values a literal holds
IrisOfLiteral(l) == IF l.kind = "Typed" THEN {l.iri} ELSE {}

TagsOfLiteral(l) == IF l.kind = "LanguageString" THEN {l.lang_tag} ELSE {}

\* the Iri and LangTag values a proxy holds
IrisOfProxy(p) ==
    CASE p.kind = "Iri" -> {p.iri}
      [] p.kind = "Literal" -> IrisOfLiteral(p.literal)
      [] OTHER -> {}

TagsOfProxy(p) == IF p.kind = "Literal" THEN TagsOfLiteral(p.literal) ELSE {}

\* the values returned by an operation
Values(iris, tags) == [iris |-> iris, tags |-> tags]

\* every Iri value in existence
IrisInExistence ==
    (IF iri.some THEN {iri.val} ELSE {})
    \cup (IF lit.some THEN IrisOfLiteral(lit.val) ELSE {})
    \cup (IF triple.some
          THEN IrisOfProxy(triple.val.s) \cup {triple.val.p} \cup IrisOfProxy(triple.val.o)
          ELSE {})
    \cup (IF ret.some THEN ret.val.iris ELSE {})

\* every LangTag value in existence
TagsInExistence ==
    (IF tagA.some THEN {tagA.val} ELSE {})
    \cup (IF lit.some THEN TagsOfLiteral(lit.val) ELSE {})
    \cup (IF triple.some THEN TagsOfProxy(triple.val.o) ELSE {})
    \cup (IF ret.some THEN ret.val.tags ELSE {})

InitValid ==
    /\ ext = Some([unchecked |-> FALSE])
    /\ triple = None /\ quad = None /\ lit = None /\ txt = << >> /\ ntok = 0
    /\ iri = None /\ tagA = None /\ tagB = None
    /\ op = "init" /\ ret = None

ValidIriNew(t) ==
    /\ iri = None
    /\ iri' = Iri_new(t)
    /\ op' = "Iri::new" /\ ret' = None
    /\ UNCHANGED <<txt, ntok, tagA, tagB, lit, triple, quad, ext>>

ValidTagNew(t) ==
    /\ tagA = None
    /\ tagA' = LangTag_new(t)
    /\ op' = "LangTag::new" /\ ret' = None
    /\ UNCHANGED <<txt, ntok, iri, tagB, lit, triple, quad, ext>>

\* borrowed, clone and Predicate::as_iri of the Iri
ValidIriCopy(method) ==
    /\ iri.some
    /\ op' = method
    /\ ret' = Some(Values({ CASE method = "Iri::borrowed" -> Iri_borrowed(iri.val)
                              [] method = "Iri::clone" -> Iri_clone(iri.val)
                              [] method = "Predicate::as_iri" -> Iri_as_iri(iri.val) }, {}))
    /\ UNCHANGED <<txt, ntok, iri, tagA, tagB, lit, triple, quad, ext>>

ValidTagBorrowed ==
    /\ tagA.some
    /\ op' = "LangTag::borrowed"
    /\ ret' = Some(Values({}, {LangTag_borrowed(tagA.val)}))
    /\ UNCHANGED <<txt, ntok, iri, tagA, tagB, lit, triple, quad, ext>>

\* Literal::Typed(lex, iri)
ValidLiteralTyped ==
    /\ iri.some /\ lit = None
    /\ lit' = Some(Literal_Typed(<<"4", "2">>, iri.val))
    /\ op' = "Literal::Typed" /\ ret' = None
    /\ UNCHANGED <<txt, ntok, iri, tagA, tagB, triple, quad, ext>>

\* Literal::LanguageString(lex, tag, dir)
ValidLiteralLanguageString(dir) ==
    /\ tagA.some /\ lit = None
    /\ lit' = Some(Literal_LanguageString(<<"4", "2">>, tagA.val, dir))
    /\ op' = "Literal::LanguageString" /\ ret' = None
    /\ UNCHANGED <<txt, ntok, iri, tagA, tagB, triple, quad, ext>>

\* the projections of the literal
ValidLiteralProject(method) ==
    /\ lit.some
    /\ op' = method
    /\ ret' = Some(CASE method = "Literal::borrowed" ->
                            LET l == Literal_borrowed(lit.val)
                            IN  Values(IrisOfLiteral(l), TagsOfLiteral(l))
                     [] method = "Literal::datatype_iri" -> Values({Literal_datatype_iri(lit.val)}, {})
                     [] method = "Literal::language_tag" ->
                            LET t == Literal_language_tag(lit.val)
                            IN  Values({}, IF t.some THEN {t.val} ELSE {}))
    /\ UNCHANGED <<txt, ntok, iri, tagA, tagB, lit, triple, quad, ext>>

\* a triple of proxies made of the Iri, with the Iri or the literal as object
ValidTriple(withLiteral) ==
    /\ iri.some /\ triple = None
    /\ withLiteral => lit.some
    /\ triple' = Some(TripleOf(Proxy_Iri(iri.val), iri.val,
                               IF withLiteral THEN ObjectProxy_Literal(lit.val)
                               ELSE Proxy_Iri(iri.val)))
    /\ op' = "Triple" /\ ret' = None
    /\ UNCHANGED <<txt, ntok, iri, tagA, tagB, lit, quad, ext>>

\* the terms of the triple are decomposed through their proxies
ValidDecompose(role) ==
    /\ triple.some
    /\ op' = role
    /\ ret' = Some(CASE role = "subject" ->
                            Values(IrisOfProxy(SubjectProxy_as_subject_proxy(triple.val.s)), {})
                     [] role = "predicate" -> Values({Iri_as_iri(triple.val.p)}, {})
                     [] role = "object" ->
                            LET o == ObjectProxy_as_object_proxy(triple.val.o)
                            IN  Values(IrisOfProxy(o), TagsOfProxy(o)))
    /\ UNCHANGED <<txt, ntok, iri, tagA, tagB, lit, triple, quad, ext>>

ValidIriNewUnchecked(t) ==
    /\ iri = None
    /\ iri' = Some(Iri_new_unchecked(t))
    /\ ext' = Some([unchecked |-> TRUE])
    /\ op' = "Iri::new_unchecked" /\ ret' = None
    /\ UNCHANGED <<txt, ntok, tagA, tagB, lit, triple, quad>>

ValidIriUncheckedMap ==
    /\ iri.some
    /\ lit = None /\ triple = None /\ iri.val.text \in ValidIriTexts
    /\ iri' = Some(Iri_unchecked_map(iri.val, AppendSpace(iri.val.text)))
    /\ ext' = Some([unchecked |-> TRUE])
    /\ op' = "Iri::unchecked_map" /\ ret' = None
    /\ UNCHANGED <<txt, ntok, tagA, tagB, lit, triple, quad>>

ValidTagNewUnchecked(t) ==
    /\ tagA = None
    /\ tagA' = Some(LangTag_new_unchecked(t))
    /\ ext' = Some([unchecked |-> TRUE])
    /\ op' = "LangTag::new_unchecked" /\ ret' = None
    /\ UNCHANGED <<txt, ntok, iri, tagB, lit, triple, quad>>

ValidTagUncheckedMap ==
    /\ tagA.some
    /\ lit = None /\ tagA.val.text \in ValidTagTexts
    /\ tagA' = Some(LangTag_unchecked_map(tagA.val, AppendSpace(tagA.val.text)))
    /\ ext' = Some([unchecked |-> TRUE])
    /\ op' = "LangTag::unchecked_map" /\ ret' = None
    /\ UNCHANGED <<txt, ntok, iri, tagB, lit, triple, quad>>

NextValid ==
    \/ \E t \in ValidIriTexts : ValidIriNew(t)
    \/ \E t \in ValidTagTexts : ValidTagNew(t)
    \/ \E method \in {"Iri::borrowed", "Iri::clone", "Predicate::as_iri"} : ValidIriCopy(method)
    \/ ValidTagBorrowed
    \/ ValidLiteralTyped
    \/ \E dir \in {None, Some("Ltr")} : ValidLiteralLanguageString(dir)
    \/ \E method \in {"Literal::borrowed", "Literal::datatype_iri", "Literal::language_tag"} :
           ValidLiteralProject(method)
    \/ \E withLiteral \in BOOLEAN : ValidTriple(withLiteral)
    \/ \E role \in {"subject", "predicate", "object"} : ValidDecompose(role)
    \/ \E t \in ValidIriTexts : ValidIriNewUnchecked(t)
    \/ ValidIriUncheckedMap
    \/ \E t \in ValidTagTexts : ValidTagNewUnchecked(t)
    \/ ValidTagUncheckedMap

SpecValid == InitValid /\ [][NextValid]_vars

\* C19: as long as neither new_unchecked nor unchecked_map has been called,
\* every Iri value in existence matches the IRI grammar of RFC 3987 and every
\* LangTag value matches the language-tag grammar of BCP47.
C19_ValidityInvariant ==
    ~ext.val.unchecked =>
        /\ \A i \in IrisInExistence : IsRfc3987Iri(Iri_as_ref(i))
        /\ \A t \in TagsInExistence : IsBcp47Tag(LangTag_as_ref(t))

-----------------------------------------------------------------------------
(* Comparisons of Iri values: iri is the left operand, txt the text of the *)
(* right operand (an Iri or a &str).                                        *)

\* the texts of test::as_str, and spellings that differ from them in letter
\* case or in length
IriCmpTexts ==
    { <<"h", "t", "t", "p", ":", "/", "/", "e", "x", "a", "m", "p", "l", "e", ".", "o", "r", "g", "/", "f", "o", "o", "/", "b", "a", "r">>,
      <<"h", "t", "t", "p", ":">>,
      <<"i">>,
      <<"H", "T", "T", "P", ":", "/", "/", "e", "x", "a", "m", "p", "l", "e", ".", "o", "r", "g", "/", "f", "o", "o", "/", "b", "a", "r">>,
      <<"h", "t", "t", "p", ":", "/", "/", "e", "x", "a", "m", "p", "l", "e", ".", "o", "r", "g", "/", "f", "o", "o", "/", "b", "a", "R">>,
      <<"h", "t", "t", "p", ":", "/", "/", "e", "x", "a", "m", "p", "l", "e", ".", "o", "r", "g", "/", "f", "o", "o", "/", "b", "a">>,
      <<"I">> }

InitIriCmp ==
    /\ iri \in { Some(Iri_new_unchecked(s)) : s \in IriCmpTexts }
    /\ txt \in IriCmpTexts
    /\ ntok = 0 /\ tagA = None /\ tagB = None
    /\ lit = None /\ triple = None /\ quad = None /\ ext = None
    /\ op = "init" /\ ret = None

IriCmpReturn(name, result) ==
    /\ op = "init"
    /\ op' = name
    /\ ret' = result
    /\ UNCHANGED <<txt, ntok, iri, tagA, tagB, lit, triple, quad, ext>>

\* a == b
IriCmpEq == IriCmpReturn("eq", Iri_eq(iri.val, Iri_new_unchecked(txt)))

\* a == "b"
IriCmpEqStr == IriCmpReturn("eq_str", Iri_eq_str(iri.val, txt))

\* "b" == a
IriCmpStrEq == IriCmpReturn("str_eq", str_eq_Iri(txt, iri.val))

\* a < b
IriCmpLt == IriCmpReturn("lt", lt(Iri_partial_cmp(iri.val, Iri_new_unchecked(txt))))

\* a < "b"
IriCmpLtStr == IriCmpReturn("lt_str", lt(Iri_partial_cmp_str(iri.val, txt)))

\* "b" < a
IriCmpStrLt == IriCmpReturn("str_lt", lt(str_partial_cmp_Iri(txt, iri.val)))

\* a.cmp(b)
IriCmpOrd == IriCmpReturn("cmp", Iri_cmp(iri.val, Iri_new_unchecked(txt)))

NextIriCmp ==
    \/ IriCmpEq
    \/ IriCmpEqStr
    \/ IriCmpStrEq
    \/ IriCmpLt
    \/ IriCmpLtStr
    \/ IriCmpStrLt
    \/ IriCmpOrd

SpecIriCmp == InitIriCmp /\ [][NextIriCmp]_vars

\* a and b are the same sequence of characters
SameText(a, b) == Len(a) = Len(b) /\ \A i \in 1..Len(a) : Ch(a[i]) = Ch(b[i])

\* a is before b as strings: at the first place where they differ, a has ended
\* or has the smaller character
TextBefore(a, b) ==
    \E k \in 1..(Len(b)) :
        /\ \A i \in 1..(k - 1) : i <= Len(a) /\ Ch(a[i]) = Ch(b[i])
        /\ k > Len(a) \/ Ch(a[k]) < Ch(b[k])

\* C20: equality and ordering of Iri values compare the raw texts exactly:
\* a == b iff the texts are equal and a < b iff text(a) is before text(b) as
\* strings, also when one side is a &str, in both argument orders.
C20_ExactTextComparison ==
    /\ op \in {"eq", "eq_str", "str_eq"} => (ret <=> SameText(iri.val.text, txt))
    /\ op \in {"lt", "lt_str"} => (ret <=> TextBefore(iri.val.text, txt))
    /\ op = "str_lt" => (ret <=> TextBefore(txt, iri.val.text))
    /\ op = "cmp" => ret = (IF SameText(iri.val.text, txt) THEN "Equal"
                            ELSE IF TextBefore(iri.val.text, txt) THEN "Less" ELSE "Greater")

\* test::as_str: "http:" < iri1
C20_HttpBeforeIri ==
    /\ op = "str_lt" /\ ret = TRUE
    /\ txt = <<"h", "t", "t", "p", ":">>
    /\ iri.val.text = <<"h", "t", "t", "p", ":", "/", "/", "e", "x", "a", "m", "p", "l", "e", ".", "o", "r", "g", "/", "f", "o", "o", "/", "b", "a", "r">>

(***************************************************************************)
(* Panics of the oxrdf adapter (impl_oxrdf.rs).  Two kinds of value are    *)
(* handled: values of oxrdf, decomposed through the traits, and triples    *)
(* and quads of proxies, which can carry a base direction, converted into  *)
(* oxrdf.                                                                  *)
(***************************************************************************)

RECURSIVE ox_from_r2c2_triple_of_proxies(_)

\* From<ObjectProxy<T>> for ox::Term where T is a triple of proxies; on the
\* variants other than Triple it is ox_Term_from
ox_Term_from_of_proxies(value) ==
    IF value.kind = "Triple" THEN ox_from_r2c2_triple_of_proxies(value.triple)
    ELSE ox_Term_from(value)

\* from_r2c2_triple of a triple of proxies: as_subject_proxy, as_iri and
\* as_object_proxy of a proxy return the proxy
ox_from_r2c2_triple_of_proxies(t) ==
    LET s == ox_Subject_from(SubjectProxy_as_subject_proxy(t.s))
        p == ox_NamedNode_from(Iri_as_iri(t.p))
        o == ox_Term_from_of_proxies(ObjectProxy_as_object_proxy(t.o))
    IN  IF Panics(o) THEN Panic ELSE ox_Triple(s, p, o)

\* from_r2c2_quad of a quad of proxies
ox_from_r2c2_quad_of_proxies(q) ==
    LET s == ox_Subject_from(SubjectProxy_as_subject_proxy(q.s))
        p == ox_NamedNode_from(Iri_as_iri(q.p))
        o == ox_Term_from_of_proxies(ObjectProxy_as_object_proxy(q.o))
        g == IF q.g.some THEN ox_GraphName_from(q.g.val) ELSE ox_DefaultGraph
    IN  IF Panics(o) THEN Panic ELSE ox_Quad(s, p, o, g)

\* a bool returned by a method that can panic
ReturnedBool(b) == [kind |-> "bool", val |-> b]

\* Subject::ground of an ox::Subject: the default method, through subject_kind
\* and as_subject_proxy
ox_Subject_ground(self) ==
    LET proxy == ox_Subject_as_subject_proxy(self)
    IN  IF Panics(proxy) THEN Panic ELSE ReturnedBool(Subject_ground(proxy))

RECURSIVE ox_Triple_ground(_)

\* Object::ground of an ox::Term: the default method, through object_kind,
\* as_object_proxy and as_triple
ox_Term_ground(self) ==
    LET proxy == ox_Term_as_object_proxy(self)
    IN  CASE proxy.kind \in {"Iri", "Literal"} -> ReturnedBool(TRUE)
          [] proxy.kind = "BlankNode" -> ReturnedBool(FALSE)
          [] proxy.kind = "Triple" -> ox_Triple_ground(proxy.triple)

\* Triple::ground of an ox::Triple: subject().ground() && object().ground()
ox_Triple_ground(t) ==
    LET s == ox_Subject_ground(t.s)
    IN  IF Panics(s) THEN Panic
        ELSE IF ~s.val THEN ReturnedBool(FALSE)
        ELSE ox_Term_ground(t.o)

InitOx ==
    /\ \/ /\ ext \in { Some(Adapted("oxrdf", "subject", v)) : v \in OxSubjects }
                \cup { Some(Adapted("oxrdf", "predicate", v)) : v \in OxPredicates }
                \cup { Some(Adapted("oxrdf", "object", v)) : v \in OxObjects }
                \cup { Some(Adapted("oxrdf", "graph_name", v)) : v \in OxSubjects }
          /\ triple = None
       \/ /\ ext = None
          /\ triple \in { Some(TripleOf(s, p, o)) :
                              s \in TermSubjects, p \in TermPredicates, o \in TermObjects }
    /\ quad = None /\ lit = None /\ txt = << >> /\ ntok = 0
    /\ iri = None /\ tagA = None /\ tagB = None
    /\ op = "init" /\ ret = None

\* a value of oxrdf is built up
OxNest(s, p) == ext.some /\ AdapterNest(s, p)

OxTripleAsSubject(role) == ext.some /\ AdapterTripleAsSubject(role)

OxMakeTriple(p, other) == ext.some /\ AdapterMakeTriple(p, other)

OxMakeQuad(g) == ext.some /\ AdapterMakeQuad(g)

\* a value of oxrdf is decomposed, and recomposed
OxAsProxy(form) == ext.some /\ AdapterAsProxy(form)

OxInto == ext.some /\ AdapterInto

OxFromR2c2(form) == ext.some /\ AdapterFromR2c2(form)

\* Triple::ground of a triple of oxrdf
OxTripleGround ==
    /\ ext.some /\ op = "init" /\ ext.val.role = "triple"
    /\ LET value == ox_Triple_ground(ext.val.val)
       IN  IF Panics(value)
           THEN op' = "panic" /\ ret' = None
           ELSE op' = "Triple::ground" /\ ret' = Some(value)
    /\ UNCHANGED <<txt, ntok, iri, tagA, tagB, lit, triple, quad, ext>>

\* a triple of proxies is built up
OxProxyNest(s, p) == triple.some /\ NestTriple(s, p)

OxProxyQuad(g) == triple.some /\ MakeQuad(g)

\* the result of a conversion into oxrdf, or its panic
OxConverted(name, value) ==
    /\ IF Panics(value) THEN TermReturn("panic", None)
                        ELSE TermReturn(name, Some(value))
    /\ UNCHANGED lit

\* the object of the triple of proxies is converted
OxTermFrom ==
    /\ triple.some /\ quad = None
    /\ OxConverted("ox::Term::from", ox_Term_from_of_proxies(triple.val.o))

\* the triple of proxies is converted
OxFromTriple ==
    /\ triple.some /\ quad = None
    /\ OxConverted("from_r2c2_triple", ox_from_r2c2_triple_of_proxies(triple.val))

\* the quad of proxies is converted
OxFromQuad ==
    /\ triple.some /\ quad.some
    /\ OxConverted("from_r2c2_quad", ox_from_r2c2_quad_of_proxies(quad.val))

NextOx ==
    \/ \E s \in OxSubjects, p \in OxPredicates : OxNest(s, p)
    \/ \E role \in {"subject", "graph_name"} : OxTripleAsSubject(role)
    \/ \E p \in RtPredicates, other \in OxSubjects : OxMakeTriple(p, other)
    \/ \E g \in OxGraphNames : OxMakeQuad(g)
    \/ \E form \in Forms : OxAsProxy(form)
    \/ OxInto
    \/ \E form \in Forms : OxFromR2c2(form)
    \/ OxTripleGround
    \/ \E s \in TermSubjects, p \in TermPredicates : OxProxyNest(s, p)
    \/ \E g \in TermGraphNames : OxProxyQuad(g)
    \/ OxTermFrom
    \/ OxFromTriple
    \/ OxFromQuad

SpecOx == InitOx /\ [][NextOx]_vars

RECURSIVE CarriesBaseDirection(_)

\* the object is a language string with a base direction, or a triple term
\* whose object, at any depth, is one
CarriesBaseDirection(o) ==
    \/ o.kind = "Literal" /\ o.literal.kind = "LanguageString" /\ o.literal.base_dir.some
    \/ o.kind = "Triple" /\ CarriesBaseDirection(o.triple.o)

\* C22: in the oxrdf adapter a panic occurs only on the two documented
\* limitations.  Decomposing a subject or a graph name of oxrdf panics iff it
\* is a triple term; recomposing an object, a triple or a quad of oxrdf panics
\* iff a triple is in subject position in it, and Triple::ground panics only
\* then; converting an object, a triple or a quad of proxies into oxrdf panics
\* iff its object is, or holds, a language string carrying a base direction.
C22_PanicsOnlyOnLimitations ==
    /\ ext.some =>
           /\ op = "panic" => Unsupported(ext.val)
           /\ op = "as_proxy" /\ ext.val.role \in {"subject", "graph_name"} =>
                  ext.val.val.kind # "Triple"
           /\ op \in {"into", "from_r2c2"} => ~Unsupported(ext.val)
    /\ triple.some /\ op # "init" =>
           (op = "panic" <=> CarriesBaseDirection(triple.val.o))

\* a quad of proxies whose object is a triple term holding a directional
\* language string made from_r2c2_quad panic
C22_NestedDirectionPanicked ==
    /\ triple.some /\ quad.some /\ op = "panic"
    /\ triple.val.o.kind = "Triple"
    /\ triple.val.o.triple.o.kind = "Literal"
    /\ triple.val.o.triple.o.literal.base_dir = Some("Rtl")

(***************************************************************************)
(* statement_validation/src/_iri.rs, _language_tag.rs: the extension       *)
(* traits IriValidation and LangTagValidation.  IRI_REGEX_SRC and          *)
(* TAG_REGEX_SRC of this crate are, character for character, the texts of  *)
(* the statement crate's (statement_validation/src/_iri.rs:36-167 against  *)
(* statement/src/_iri.rs:92-223, _language_tag.rs:36-96 against            *)
(* _literal/_language_tag.rs:118-178).                                     *)
(***************************************************************************)

validation_IRI_REGEX == IRI_REGEX_SRC

validation_TAG_REGEX == TAG_REGEX_SRC

\* IriValidation::new for Iri
IriValidation_new(t) ==
    LET inner == t
    IN  IF is_match(validation_IRI_REGEX, inner) THEN Some(Iri_new_unchecked(inner)) ELSE None

\* LangTagValidation::new keeping the tag in lower case
LangTagValidation_new_lowercased(t) ==
    LET inner == to_ascii_lowercase(t)
    IN  IF is_match(validation_TAG_REGEX, inner) THEN Some(LangTag_new_unchecked(inner)) ELSE None

\* LangTagValidation::new for LangTag
LangTagValidation_new(t) ==
    LET inner == t
    IN  IF is_match(validation_TAG_REGEX, inner) THEN Some(LangTag_new_unchecked(inner)) ELSE None

\* debug_assert!(cond): evaluated in a build with debug assertions, compiled
\* out otherwise; TRUE when the call returns, FALSE when it panics
debug_assert(debug_assertions, cond) == IF debug_assertions THEN cond ELSE TRUE

\* IriValidation::debug_assert_is_valid
Iri_debug_assert_is_valid(self, debug_assertions) ==
    debug_assert(debug_assertions, is_match(validation_IRI_REGEX, Iri_as_ref(self)))

\* LangTagValidation::debug_assert_is_valid
LangTag_debug_assert_is_valid(self, debug_assertions) ==
    debug_assert(debug_assertions, is_match(validation_TAG_REGEX, LangTag_as_ref(self)))

-----------------------------------------------------------------------------
(* SpecTwin: one text handed to the constructors of both crates, and a     *)
(* value made unchecked from it handed to debug_assert_is_valid            *)

MaxTwinTokens == 1

\* IRIs, tags and texts that are neither, from the tests of the two crates
TwinSeeds ==
    { <<>>,
      <<"h", "t", "t", "p", ":">>,
      <<"h", "t", "t", "p", ":", "/", "/", "e", "x", "a", "m", "p", "l", "e", ".", "o", "r", "g", "/">>,
      <<"t", "a", "g", ":", "a", "b", "c", "/", "d", "e", "f">>,
      <<"h", "t", "t", "p", ":", "/", "/", "[", ":", ":", "]">>,
      <<"f", "o", "o">>,
      <<"/", "/", "e", "x", "a", "m", "p", "l", "e", ".", "o", "r", "g">>,
      <<"h", "t", "t", "p", ":", "/", "/", "a", "/", " ">>,
      <<"h", "t", "t", "p", ":", "/", "/", "a", ":", "b">>,
      <<"e", "n", "-", "G", "B">>,
      <<"z", "h", "-", "g", "u", "o", "y", "u">>,
      <<"i", "-", "k", "l", "i", "n", "g", "o", "n">>,
      <<"x", "-", "w", "h", "a", "t", "e", "v", "e", "r">>,
      <<"1", "2">>,
      <<"a">>,
      <<"a", "b", "-", "a", "b", "-", "a", "b", "c">>,
      <<"d", "e", "-", "1", "9", "9", "6">> }

TwinTokens == { <<"/">>, <<"-">>, <<"a">>, <<":">>, <<"G", "B">>, <<" ">> }

\* ext: whether the build has debug assertions (a debug build) or not
InitTwin ==
    /\ txt \in TwinSeeds
    /\ ext \in { Some([debug_assertions |-> b]) : b \in BOOLEAN }
    /\ ntok = 0
    /\ iri = None /\ tagA = None /\ tagB = None /\ lit = None /\ triple = None
    /\ quad = None /\ op = "init" /\ ret = None

TwinPush(tok) ==
    /\ op = "init"
    /\ ntok < MaxTwinTokens
    /\ txt' = txt \o tok
    /\ ntok' = ntok + 1
    /\ UNCHANGED <<iri, tagA, tagB, lit, triple, quad, ext, op, ret>>

TwinReturn(name, result) ==
    /\ op = "init"
    /\ op' = name
    /\ ret' = result
    /\ UNCHANGED <<txt, ntok, iri, tagA, tagB, lit, triple, quad, ext>>

\* Iri::new(txt) and <Iri as IriValidation>::new(txt)
TwinIriNew ==
    TwinReturn("Iri::new", [statement |-> Iri_new(txt), validation |-> IriValidation_new(txt)])

\* LangTag::new(txt) and <LangTag as LangTagValidation>::new(txt)
TwinTagNew ==
    TwinReturn("LangTag::new",
               [statement |-> LangTag_new(txt), validation |-> LangTagValidation_new(txt)])

\* Iri::new_unchecked(txt).debug_assert_is_valid()
TwinIriAssert ==
    TwinReturn("Iri::debug_assert_is_valid",
               [passes |-> Iri_debug_assert_is_valid(Iri_new_unchecked(txt),
                                                      ext.val.debug_assertions),
                accepted |-> IriValidation_new(txt).some])

\* LangTag::new_unchecked(txt).debug_assert_is_valid()
TwinTagAssert ==
    TwinReturn("LangTag::debug_assert_is_valid",
               [passes |-> LangTag_debug_assert_is_valid(LangTag_new_unchecked(txt),
                                                          ext.val.debug_assertions),
                accepted |-> LangTagValidation_new(txt).some])

NextTwin ==
    \/ \E tok \in TwinTokens : TwinPush(tok)
    \/ TwinIriNew
    \/ TwinTagNew
    \/ TwinIriAssert
    \/ TwinTagAssert

SpecTwin == InitTwin /\ [][NextTwin]_vars

\* the constructors of the two crates return the same
TwinConstructorsAgree ==
    op \in {"Iri::new", "LangTag::new"} =>
        /\ ret.statement = ret.validation
        /\ ret.statement.some => ret.statement.val.text = txt

\* C29 as stated: Iri::new and IriValidation::new return Some for the same
\* texts, with the same text, and likewise LangTag::new and
\* LangTagValidation::new; debug_assert_is_valid passes on a value iff the
\* validating constructor would accept its text.
C29_AssertPassesIffAccepted ==
    /\ TwinConstructorsAgree
    /\ op \in {"Iri::debug_assert_is_valid", "LangTag::debug_assert_is_valid"} =>
           (ret.passes <=> ret.accepted)

\* C29, amended: the same of the constructors; in a build with debug
\* assertions debug_assert_is_valid passes on a value iff the validating
\* constructor would accept its text, and in a build without them it passes
\* on every value.
C29_ValidatorsEquivalent ==
    /\ TwinConstructorsAgree
    /\ op \in {"Iri::debug_assert_is_valid", "LangTag::debug_assert_is_valid"} =>
           IF ext.val.debug_assertions THEN ret.passes <=> ret.accepted
           ELSE ret.passes

\* in a release build debug_assert_is_valid passed on a tag that
\* LangTagValidation::new refuses
C29_ReleasePassesInvalid ==
    /\ op = "LangTag::debug_assert_is_valid"
    /\ ~ext.val.debug_assertions
    /\ txt = <<"a", "b", "-", "a", "b", "-", "a", "b", "c">>
    /\ ret.passes /\ ~ret.accepted

=============================================================================
